---------------------------- MODULE Spec2Model ----------------------------
(***************************************************************************)
(* A model of the buf-go-plugins generators: the wire-format readers that  *)
(* look for custom options, the identifier-field resolvers, the method     *)
(* classifiers and the drivers that emit one file per schema file.         *)
(*                                                                         *)
(* Bytes are numbers 0..255, byte strings are sequences of bytes.  Names   *)
(* (of fields, messages, methods) are sequences of one-character strings,  *)
(* so that prefix, suffix and case conversions are computed, not assumed.  *)
(***************************************************************************)
EXTENDS Integers, Sequences, FiniteSets, TLC

VARIABLES
    \* ---- the tag walk (containsTag / containsFieldTag)
    tFn,        \* which copy of the walk runs
    tB,         \* b []byte
    tNum,       \* fieldNum int32
    tI,         \* i int (64 bits, two's complement, as limbs)
    tSt,        \* "loop" | "done" | "panic"
    tRet,       \* the returned bool (meaningful when tSt = "done")
    \* ---- parseExtension
    xB,         \* the message's unknown bytes
    xNum,       \* fieldNum
    xRaw,       \* raw: the bytes not yet consumed
    xSt,        \* "loop" | "done"
    xRet,       \* the returned []byte: [nil |-> TRUE] or the payload
    \* ---- the option parsers (parseCategory*Options, parseStripeConfig)
    oFn,        \* which parser runs
    oIn,        \* the data argument: nil, or a byte string
    oData,      \* data: the bytes not yet consumed
    oOpts,      \* opts / cfg: the result under construction
    oSt,        \* "entry" | "loop" | "done"
    oBad,       \* a malformed element has been met (history, not program state)
    \* ---- the identifier-field resolvers
    iFields,    \* msg.Fields of the message being resolved
    iRes,       \* resolver name -> its result, once it has run
    \* ---- the plug-ins run on a schema file
    gPlugin,    \* the plug-in that is run
    gFile,      \* the schema file: its messages and its services
    gRun,       \* 1 for the first run over the file, 2 for the second
    gPc,        \* where main stands: "start", "services", "generate", "done"
    gEntities,  \* the entities map of the run
    gServices,  \* the services analysed so far in the run
    gNext,      \* the index of the next service to analyse
    gOut,       \* the generated file of the run
    gOut1,      \* the generated file of the first run, kept for the second
    \* ---- fragments (Code values) built and rendered
    fFam,       \* the program whose helpers are used
    fFrags,     \* the Code values built so far
    fHow,       \* how each of them was built (history)
    fRuns,      \* what each of them rendered, first and last (history)
    \* ---- the list functions (Map, Filter, FoldMap, Concat) applied
    hXs,        \* xs: the list
    hF,         \* f of Map
    hPred,      \* pred of Filter
    hCode,      \* f of FoldMap, an item's Code
    hRes,       \* function name -> its result, once it has been applied
    \* ---- a plug-in run over several schema files
    rFiles,     \* gen.Files
    rAt,        \* the index of the file the loop of main stands at
    rErrorsGenerated,   \* errorsGenerated
    rEmitted,   \* for each file gone through, the files generated for it
    \* an emitted in-memory repository and the goroutines calling it
    mData,      \* r.data: id -> stored entity
    mIdxEmail,  \* r.idxEmail: email -> id
    mMu,        \* r.mu: 0 when free, else the goroutine holding it
    mPc,        \* for each goroutine, where it stands in the call it is in
    mArg,       \* for each goroutine, the argument of the call it is in
    mRet,       \* the call that returned last, with what it returned
    mSoft       \* for each id: whether SoftDelete succeeded on it and no
                \* Restore, and no removal of it, succeeded since

tagVars == <<tFn, tB, tNum, tI, tSt, tRet>>

extVars == <<xB, xNum, xRaw, xSt, xRet>>

optVars == <<oFn, oIn, oData, oOpts, oSt, oBad>>

idVars == <<iFields, iRes>>

genVars == <<gPlugin, gFile, gRun, gPc, gEntities, gServices, gNext, gOut, gOut1>>

fragVars == <<fFam, fFrags, fHow, fRuns>>

foldVars == <<hXs, hF, hPred, hCode, hRes>>

runVars == <<rFiles, rAt, rErrorsGenerated, rEmitted>>

memVars == <<mData, mIdxEmail, mMu, mPc, mArg, mRet, mSoft>>

-----------------------------------------------------------------------------
(* Sequences helpers (Go slicing).                                         *)

\* s[n:]
Drop(s, n) == SubSeq(s, n + 1, Len(s))

\* s[:n]
Take(s, n) == SubSeq(s, 1, n)

RECURSIVE Flatten(_)
Flatten(ss) == IF ss = <<>> THEN <<>> ELSE Head(ss) \o Flatten(Tail(ss))

\* All sequences over S of length 0..n
SeqsUpTo(S, n) == UNION {[1..k -> S] : k \in 0..n}

-----------------------------------------------------------------------------
(* 64-bit machine integers.  TLC's integers are 32 bits wide, so a uint64  *)
(* (and an int, which is int64 on the platforms the plugins build for) is  *)
(* kept as four limbs <<l0, l1, l2, l3>>: l0..l2 hold 21 bits each (three  *)
(* varint groups of 7 bits), l3 holds bit 63.  Arithmetic wraps at 2^64.   *)

LimbBase == 128 * 128 * 128

U64Zero == <<0, 0, 0, 0>>

\* a small non-negative number as a 64-bit value
ToU64(n) == <<n % LimbBase, n \div LimbBase, 0, 0>>

\* u + s modulo 2^64, for a small non-negative s
AddSmall(u, s) ==
    LET a0 == u[1] + s
        a1 == u[2] + (a0 \div LimbBase)
        a2 == u[3] + (a1 \div LimbBase)
        a3 == u[4] + (a2 \div LimbBase)
    IN  <<a0 % LimbBase, a1 % LimbBase, a2 % LimbBase, a3 % 2>>

\* the value read as a signed int64 is negative
IsNeg(u) == u[4] = 1

\* the value is a non-negative number below 2^31
FitsSmall(u) == u[4] = 0 /\ u[3] = 0 /\ u[2] < 1024

Small(u) == u[2] * LimbBase + u[1]

\* signed comparison  u < n  for a small non-negative n
SignedLess(u, n) == IsNeg(u) \/ (FitsSmall(u) /\ Small(u) < n)

\* x | (d << 7n) for a 7-bit group d that lands on bits still zero in x;
\* the tenth group (n = 9) is shifted by 63, so only its lowest bit survives
OrShl7(x, d, n) ==
    IF n = 9
    THEN [x EXCEPT ![4] = d % 2]
    ELSE [x EXCEPT ![(n \div 3) + 1] = @ + d * (128 ^ (n % 3))]

\* v & 0x7
Low3(v) == v[1] % 8

-----------------------------------------------------------------------------
(* The hand-written tag walk that answers "is this message marked as an    *)
(* entity": service-stubs and connect-server containsTag / varint, and     *)
(* the firestore plugin's containsFieldTag / decodeVarint.                 *)

entityExtensionNumber == 50000

\* varint: up to ten bytes, seven bits each, the first byte below 0x80 ends it;
\* (0, 0) when the bytes run out or ten bytes all carry the continuation bit
RECURSIVE varintFrom(_, _, _)
varintFrom(bs, n, x) ==
    IF n < Len(bs) /\ n < 10
    THEN LET x2 == OrShl7(x, bs[n + 1] % 128, n)
         IN  IF bs[n + 1] < 128
             THEN [v |-> x2, n |-> n + 1]
             ELSE varintFrom(bs, n + 1, x2)
    ELSE [v |-> U64Zero, n |-> 0]

varint(bs) == varintFrom(bs, 0, U64Zero)

\* decodeVarint: the same loop, with the counter advanced before the test
RECURSIVE decodeVarintFrom(_, _, _)
decodeVarintFrom(bs, n, x) ==
    IF n < Len(bs) /\ n < 10
    THEN LET v  == bs[n + 1]
             x2 == OrShl7(x, v % 128, n)
             n2 == n + 1
         IN  IF v < 128
             THEN [v |-> x2, n |-> n2]
             ELSE decodeVarintFrom(bs, n2, x2)
    ELSE [v |-> U64Zero, n |-> 0]

decodeVarint(bs) == decodeVarintFrom(bs, 0, U64Zero)

\* the varint reader each copy of the walk calls
tagVarint(fn, bs) ==
    IF fn = "containsFieldTag" THEN decodeVarint(bs) ELSE varint(bs)

\* tag := uint64(fieldNum<<3 | 2)
expectedTag(fieldNum) == ToU64(fieldNum * 8 + 2)

\* case 0:  _, vn := varint(b[i:]); i += vn
skipVarint(i, q) == ToU64(i + q.n)

\* case 1:  i += 8
skipFixed64(i) == ToU64(i + 8)

\* the skip of a length-delimited field with the payload left out
skipBytesLenOnly(i, q) == ToU64(i + q.n)

\* case 2:  length, ln := varint(b[i:]); i += ln + int(length)
\* int(length) reinterprets the 64 bits as signed; the sum wraps at 2^64
skipBytes(i, q) == AddSmall(q.v, i + q.n)

\* case 5:  i += 4
skipFixed32(i) == ToU64(i + 4)

\* One pass of  for i < len(b) { ... }  : the loop test, then the body.
\* b[i:] panics (slice bounds out of range) when i is negative.
tagIter(fn, b, fieldNum, i) ==
    IF ~SignedLess(i, Len(b))
    THEN [i |-> i, st |-> "done", ret |-> FALSE]
    ELSE IF IsNeg(i)
    THEN [i |-> i, st |-> "panic", ret |-> FALSE]
    ELSE
      LET p == Small(i)
          t == tagVarint(fn, Drop(b, p))
      IN  IF t.n = 0
          THEN [i |-> i, st |-> "done", ret |-> FALSE]
          ELSE IF t.v = expectedTag(fieldNum)
          THEN [i |-> i, st |-> "done", ret |-> TRUE]
          ELSE
            LET i1 == p + t.n
                wt == Low3(t.v)
                q  == tagVarint(fn, Drop(b, i1))
            IN  CASE wt = 0 -> [i |-> skipVarint(i1, q), st |-> "loop", ret |-> FALSE]
                  [] wt = 1 -> [i |-> skipFixed64(i1), st |-> "loop", ret |-> FALSE]
                  [] wt = 2 -> [i |-> skipBytes(i1, q), st |-> "loop", ret |-> FALSE]
                  [] wt = 5 -> [i |-> skipFixed32(i1), st |-> "loop", ret |-> FALSE]
                  [] OTHER  -> [i |-> ToU64(i1), st |-> "done", ret |-> FALSE]

\* The whole call, for callers whose bytes come out of proto.Marshal.
RECURSIVE tagRun(_, _, _, _)
tagRun(fn, b, fieldNum, i) ==
    LET r == tagIter(fn, b, fieldNum, i)
    IN  IF r.st = "loop" THEN tagRun(fn, b, fieldNum, r.i) ELSE r.ret

containsTag(b, fieldNum) == tagRun("containsTag", b, fieldNum, U64Zero)

containsFieldTag(b, fieldNum) == tagRun("containsFieldTag", b, fieldNum, U64Zero)

\* hasExtension:  len(b) > 0 && containsFieldTag(b, fieldNum)
hasExtension(b, fieldNum) == Len(b) > 0 /\ containsFieldTag(b, fieldNum)

-----------------------------------------------------------------------------
(* Inputs of the tag walk: byte strings put together from a few pieces,    *)
(* whole fields as well as loose bytes that make a string malformed.       *)

MaxTagPieces == 3

Tag50000 == <<130, 181, 24>>                      \* varint of 50000<<3 | 2

Len2p63 == <<128, 128, 128, 128, 128, 128, 128, 128, 128, 1>>   \* varint of 2^63

LenMinus11 == <<245, 255, 255, 255, 255, 255, 255, 255, 255, 1>> \* 2^64 - 11

TagPieces ==
    { <<8>>,            \* tag: field 1, varint (also the number 8)
      <<10>>,           \* tag: field 1, length-delimited
      <<9>>,            \* tag: field 1, 64-bit
      <<13>>,           \* tag: field 1, 32-bit
      <<11>>,           \* tag: field 1, start-group (no skip rule)
      <<1>>, <<3>>, <<0>>,
      <<128>>,          \* a varint byte that promises another
      <<0, 0, 0, 0>>,
      Tag50000,
      Tag50000 \o <<0>>,                 \* the entity option, empty payload
      Len2p63, LenMinus11 }

TagFieldNums == {1, entityExtensionNumber}

TagFns == {"containsTag", "containsFieldTag"}

InitTag ==
    /\ tFn \in TagFns
    /\ tB \in {Flatten(ps) : ps \in SeqsUpTo(TagPieces, MaxTagPieces)}
    /\ tNum \in TagFieldNums
    /\ tI = U64Zero
    /\ tSt = "loop"
    /\ tRet = FALSE

\* one pass of the loop of containsTag / containsFieldTag
TagStep ==
    /\ tSt = "loop"
    /\ LET r == tagIter(tFn, tB, tNum, tI)
       IN  /\ tI' = r.i
           /\ tSt' = r.st
           /\ tRet' = r.ret
    /\ UNCHANGED <<tFn, tB, tNum>>
    /\ UNCHANGED <<extVars, optVars, idVars, genVars, fragVars, foldVars, runVars, memVars>>

-----------------------------------------------------------------------------
(* protowire, as the option readers of protoc-gen-category call it.  A     *)
(* negative n is an error code.                                            *)

errCodeTruncated == 0 - 1

errCodeFieldNumber == 0 - 2

errCodeOverflow == 0 - 3

\* protowire.ConsumeVarint: at most ten bytes; the tenth may only be 0 or 1
RECURSIVE ConsumeVarintFrom(_, _, _)
ConsumeVarintFrom(bs, k, x) ==
    IF Len(bs) <= k
    THEN [v |-> U64Zero, n |-> errCodeTruncated]
    ELSE LET y == bs[k + 1]
         IN  IF y < 128
             THEN IF k = 9 /\ y > 1
                  THEN [v |-> U64Zero, n |-> errCodeOverflow]
                  ELSE [v |-> OrShl7(x, y, k), n |-> k + 1]
             ELSE IF k = 9
                  THEN [v |-> U64Zero, n |-> errCodeOverflow]
                  ELSE ConsumeVarintFrom(bs, k + 1, OrShl7(x, y % 128, k))

ConsumeVarint(bs) == ConsumeVarintFrom(bs, 0, U64Zero)

\* protowire.DecodeTag then ConsumeTag's check: the field number is x >> 3,
\* refused when it is above MaxInt32 or below 1
ConsumeTag(bs) ==
    LET r == ConsumeVarint(bs)
    IN  IF r.n < 0
        THEN [num |-> 0, typ |-> 0, n |-> r.n]
        ELSE IF ~(r.v[4] = 0 /\ r.v[3] = 0 /\ r.v[2] < 8192)
        THEN [num |-> 0, typ |-> 0, n |-> errCodeFieldNumber]
        ELSE LET num == r.v[2] * (LimbBase \div 8) + (r.v[1] \div 8)
             IN  IF num < 1
                 THEN [num |-> 0, typ |-> 0, n |-> errCodeFieldNumber]
                 ELSE [num |-> num, typ |-> Low3(r.v), n |-> r.n]

\* protowire.ConsumeBytes: a varint length m, then m bytes
ConsumeBytes(bs) ==
    LET r == ConsumeVarint(bs)
    IN  IF r.n < 0
        THEN [v |-> <<>>, n |-> r.n]
        ELSE IF ~FitsSmall(r.v) \/ Small(r.v) > Len(bs) - r.n
        THEN [v |-> <<>>, n |-> errCodeTruncated]
        ELSE [v |-> SubSeq(bs, r.n + 1, r.n + Small(r.v)), n |-> r.n + Small(r.v)]

\* protowire.ConsumeFixed64
ConsumeFixed64(bs) == IF Len(bs) < 8 THEN errCodeTruncated ELSE 8

\* protowire.ConsumeFixed32
ConsumeFixed32(bs) == IF Len(bs) < 4 THEN errCodeTruncated ELSE 4

VarintType == 0

Fixed64Type == 1

BytesType == 2

Fixed32Type == 5

-----------------------------------------------------------------------------
(* parseExtension: the raw payload of an extension field, from the unknown *)
(* bytes of an options message.                                            *)

NilBytes == [nil |-> TRUE, val |-> <<>>]

SomeBytes(v) == [nil |-> FALSE, val |-> v]

\* the value read for a field of wire type typ: its bytes (BytesType) and n
extValue(typ, raw) ==
    CASE typ = VarintType  -> [value |-> <<>>, n |-> ConsumeVarint(raw).n]
      [] typ = Fixed64Type -> [value |-> <<>>, n |-> ConsumeFixed64(raw)]
      [] typ = BytesType   -> [value |-> ConsumeBytes(raw).v, n |-> ConsumeBytes(raw).n]
      [] typ = Fixed32Type -> [value |-> <<>>, n |-> ConsumeFixed32(raw)]
      [] OTHER             -> [value |-> <<>>, n |-> 0]

\* the match with the wire type left out
extMatchesAnyType(num, typ, fieldNum) == num = fieldNum

\* if num == fieldNum && typ == protowire.BytesType { return value }
extMatches(num, typ, fieldNum) == num = fieldNum /\ typ = BytesType

\* One pass of  for len(raw) > 0 { ... }
extIter(raw, fieldNum) ==
    IF ~(Len(raw) > 0)
    THEN [raw |-> raw, st |-> "done", ret |-> NilBytes]
    ELSE
      LET t == ConsumeTag(raw)
      IN  IF t.n < 0
          THEN [raw |-> raw, st |-> "done", ret |-> NilBytes]
          ELSE
            LET raw1 == Drop(raw, t.n)
                known == t.typ \in {VarintType, Fixed64Type, BytesType, Fixed32Type}
                val == extValue(t.typ, raw1)
            IN  IF ~known
                THEN [raw |-> raw1, st |-> "done", ret |-> NilBytes]
                ELSE IF val.n < 0
                THEN [raw |-> raw1, st |-> "done", ret |-> NilBytes]
                ELSE IF extMatches(t.num, t.typ, fieldNum)
                THEN [raw |-> raw1, st |-> "done", ret |-> SomeBytes(val.value)]
                ELSE [raw |-> Drop(raw1, val.n), st |-> "loop", ret |-> NilBytes]

RECURSIVE extRun(_, _)
extRun(raw, fieldNum) ==
    LET r == extIter(raw, fieldNum)
    IN  IF r.st = "loop" THEN extRun(r.raw, fieldNum) ELSE r.ret

parseExtension(unknown, fieldNum) == extRun(unknown, fieldNum)

MaxExtPieces == 3

ExtPieces ==
    { <<8>>,            \* tag: field 1, varint
      <<10>>,           \* tag: field 1, length-delimited
      <<58>>,           \* tag: field 7, length-delimited
      <<13>>,           \* tag: field 1, 32-bit
      <<11>>,           \* tag: field 1, start-group
      <<1>>, <<2>>, <<0>>,
      <<128>>,
      <<112, 108>>,     \* "pl"
      <<0, 0, 0, 0>>,
      <<9, 0, 0, 0, 0, 58, 1, 7, 0>>,    \* field 1, 64-bit, eight bytes
      <<58, 2, 112, 108>>,               \* field 7 = "pl"
      <<255, 255, 255, 255, 255, 255, 255, 255, 255, 127>> }

ExtFieldNums == {1, 7, 8}

InitExt ==
    /\ xB \in {Flatten(ps) : ps \in SeqsUpTo(ExtPieces, MaxExtPieces)}
    /\ xNum \in ExtFieldNums
    /\ xRaw = xB
    /\ xSt = "loop"
    /\ xRet = NilBytes

\* one pass of the loop of parseExtension
ExtStep ==
    /\ xSt = "loop"
    /\ LET r == extIter(xRaw, xNum)
       IN  /\ xRaw' = r.raw
           /\ xSt' = r.st
           /\ xRet' = r.ret
    /\ UNCHANGED <<xB, xNum>>
    /\ UNCHANGED <<tagVars, optVars, idVars, genVars, fragVars, foldVars, runVars, memVars>>

-----------------------------------------------------------------------------
(* The option parsers of protoc-gen-category.  Each is a loop over the     *)
(* payload parseExtension returned; one pass of the loop is an operator    *)
(* from (data, opts) to the next (data, opts), whether the loop goes on,   *)
(* and whether the pass met a malformed element.                           *)

\* int32(v): the low 32 bits, read as signed
Int32Of(v) ==
    LET hi == v[2] % 2048
        mag == (hi % 1024) * LimbBase + v[1]
    IN  IF hi >= 1024 THEN (mag - 1073741824) - 1073741824 ELSE mag

\* v != 0
NonZero(v) == v # U64Zero

OptPass(data, opts, go, bad) == [data |-> data, opts |-> opts, go |-> go, bad |-> bad]

\* ---- parseStripeConfig

EmptyStripeConfig == [Plans |-> <<>>, WebhookSecretEnv |-> <<>>, ApiKeyEnv |-> <<>>]

stripeSet(cfg, num, b) ==
    CASE num = 1 -> [cfg EXCEPT !.Plans = Append(@, b)]
      [] num = 2 -> [cfg EXCEPT !.WebhookSecretEnv = b]
      [] num = 3 -> [cfg EXCEPT !.ApiKeyEnv = b]
      [] OTHER   -> cfg

\* "skip other types": n is still the tag's length for a wire type that is
\* none of varint, 64-bit, 32-bit
skipOther(typ, data, tagN) ==
    CASE typ = VarintType  -> ConsumeVarint(data).n
      [] typ = Fixed64Type -> 8
      [] typ = Fixed32Type -> 4
      [] OTHER             -> tagN

\* if n > 0 && n <= len(data) { data = data[n:] }
skipIfFits(data, n) == IF n > 0 /\ n <= Len(data) THEN Drop(data, n) ELSE data

stripeIter(data, cfg) ==
    IF ~(Len(data) > 0) THEN OptPass(data, cfg, FALSE, FALSE)
    ELSE
      LET t == ConsumeTag(data)
      IN  IF t.n < 0 THEN OptPass(data, cfg, FALSE, TRUE)
          ELSE
            LET d1 == Drop(data, t.n)
            IN  IF t.typ = BytesType
                THEN LET r == ConsumeBytes(d1)
                     IN  IF r.n < 0
                         THEN OptPass(d1, cfg, FALSE, TRUE)
                         ELSE OptPass(Drop(d1, r.n), stripeSet(cfg, t.num, r.v), TRUE, FALSE)
                ELSE LET n == skipOther(t.typ, d1, t.n)
                     IN  OptPass(skipIfFits(d1, n), cfg, TRUE, ~(n > 0 /\ n <= Len(d1)))

RECURSIVE stripeRun(_, _)
stripeRun(data, cfg) ==
    LET r == stripeIter(data, cfg)
    IN  IF r.go THEN stripeRun(r.data, r.opts) ELSE r.opts

parseStripeConfig(data) == stripeRun(data, EmptyStripeConfig)

\* ---- parseCategoryFileOptions

NoStripe == [nil |-> TRUE]

EmptyFileOptions == [Effects |-> <<>>, Stripe |-> NoStripe]

\* the packed loop:  for len(b) > 0 { v, vn := ConsumeVarint(b); if vn < 0 { break } ... }
RECURSIVE unpackEffects(_, _)
unpackEffects(b, effects) ==
    IF ~(Len(b) > 0) THEN effects
    ELSE LET r == ConsumeVarint(b)
         IN  IF r.n < 0 THEN effects
             ELSE unpackEffects(Drop(b, r.n), Append(effects, Int32Of(r.v)))

\* the packed run holds a varint that cannot be read
RECURSIVE packedMalformed(_)
packedMalformed(b) ==
    /\ Len(b) > 0
    /\ \/ ConsumeVarint(b).n < 0
       \/ packedMalformed(Drop(b, ConsumeVarint(b).n))

\* where the loop stands after  if n < 0 { break }  inside a case of the
\* switch: Go's break leaves the switch, and the for loop goes on
fileAfterBreak(d1, opts) == OptPass(d1, opts, TRUE, TRUE)

fileIter(data, opts) ==
    IF ~(Len(data) > 0) THEN OptPass(data, opts, FALSE, FALSE)
    ELSE
      LET t == ConsumeTag(data)
      IN  IF t.n < 0 THEN OptPass(data, opts, FALSE, TRUE)
          ELSE
            LET d1 == Drop(data, t.n)
            IN  CASE t.typ = VarintType ->
                       LET r == ConsumeVarint(d1)
                       IN  IF r.n < 0 THEN fileAfterBreak(d1, opts)
                           ELSE OptPass(Drop(d1, r.n),
                                        IF t.num = 1
                                        THEN [opts EXCEPT !.Effects = Append(@, Int32Of(r.v))]
                                        ELSE opts,
                                        TRUE, FALSE)
                  [] t.typ = BytesType ->
                       LET r == ConsumeBytes(d1)
                       IN  IF r.n < 0 THEN fileAfterBreak(d1, opts)
                           ELSE OptPass(Drop(d1, r.n),
                                        IF t.num = 1
                                        THEN [opts EXCEPT !.Effects = unpackEffects(r.v, @)]
                                        ELSE IF t.num = 10
                                        THEN [opts EXCEPT !.Stripe = parseStripeConfig(r.v)]
                                        ELSE opts,
                                        TRUE, t.num = 1 /\ packedMalformed(r.v))
                  [] OTHER ->
                       \* default: break  -- nothing is skipped
                       OptPass(d1, opts, TRUE,
                               \/ t.typ = Fixed64Type /\ Len(d1) < 8
                               \/ t.typ = Fixed32Type /\ Len(d1) < 4)

\* ---- parseCategoryMessageOptions

EmptyMessageOptions ==
    [Functor |-> FALSE, Monoid |-> FALSE, Semigroup |-> FALSE, Foldable |-> FALSE,
     Traversable |-> FALSE, Monad |-> FALSE, Bifunctor |-> FALSE, Combine |-> 0,
     FirestoreBridge |-> FALSE, Global |-> FALSE, StripeCustomer |-> FALSE,
     StripeSubscription |-> FALSE]

\* messageSet with flags that, once set, stay set
messageSetSticky(opts, num, v) ==
    CASE num = 1  -> [opts EXCEPT !.Functor = @ \/ NonZero(v)]
      [] num = 2  -> [opts EXCEPT !.Monoid = @ \/ NonZero(v)]
      [] num = 3  -> [opts EXCEPT !.Semigroup = @ \/ NonZero(v)]
      [] num = 4  -> [opts EXCEPT !.Foldable = @ \/ NonZero(v)]
      [] num = 5  -> [opts EXCEPT !.Traversable = @ \/ NonZero(v)]
      [] num = 6  -> [opts EXCEPT !.Monad = @ \/ NonZero(v)]
      [] num = 7  -> [opts EXCEPT !.Bifunctor = @ \/ NonZero(v)]
      [] num = 8  -> [opts EXCEPT !.Combine = Int32Of(v)]
      [] num = 10 -> [opts EXCEPT !.FirestoreBridge = @ \/ NonZero(v)]
      [] num = 11 -> [opts EXCEPT !.Global = @ \/ NonZero(v)]
      [] num = 20 -> [opts EXCEPT !.StripeCustomer = @ \/ NonZero(v)]
      [] num = 21 -> [opts EXCEPT !.StripeSubscription = @ \/ NonZero(v)]
      [] OTHER    -> opts

messageSet(opts, num, v) ==
    CASE num = 1  -> [opts EXCEPT !.Functor = NonZero(v)]
      [] num = 2  -> [opts EXCEPT !.Monoid = NonZero(v)]
      [] num = 3  -> [opts EXCEPT !.Semigroup = NonZero(v)]
      [] num = 4  -> [opts EXCEPT !.Foldable = NonZero(v)]
      [] num = 5  -> [opts EXCEPT !.Traversable = NonZero(v)]
      [] num = 6  -> [opts EXCEPT !.Monad = NonZero(v)]
      [] num = 7  -> [opts EXCEPT !.Bifunctor = NonZero(v)]
      [] num = 8  -> [opts EXCEPT !.Combine = Int32Of(v)]
      [] num = 10 -> [opts EXCEPT !.FirestoreBridge = NonZero(v)]
      [] num = 11 -> [opts EXCEPT !.Global = NonZero(v)]
      [] num = 20 -> [opts EXCEPT !.StripeCustomer = NonZero(v)]
      [] num = 21 -> [opts EXCEPT !.StripeSubscription = NonZero(v)]
      [] OTHER    -> opts

\* "Skip non-varint": n is still the tag's length for a group wire type
skipNonVarint(typ, data, tagN) ==
    CASE typ = BytesType   -> ConsumeBytes(data).n
      [] typ = Fixed64Type -> 8
      [] typ = Fixed32Type -> 4
      [] OTHER             -> tagN

messageIter(data, opts) ==
    IF ~(Len(data) > 0) THEN OptPass(data, opts, FALSE, FALSE)
    ELSE
      LET t == ConsumeTag(data)
      IN  IF t.n < 0 THEN OptPass(data, opts, FALSE, TRUE)
          ELSE
            LET d1 == Drop(data, t.n)
            IN  IF t.typ # VarintType
                THEN LET n == skipNonVarint(t.typ, d1, t.n)
                     IN  OptPass(skipIfFits(d1, n), opts, TRUE, ~(n > 0 /\ n <= Len(d1)))
                ELSE LET r == ConsumeVarint(d1)
                     IN  IF r.n < 0 THEN OptPass(d1, opts, FALSE, TRUE)
                         ELSE OptPass(Drop(d1, r.n), messageSet(opts, t.num, r.v), TRUE, FALSE)

\* ---- the parsers as steps

OptFns == {"parseCategoryFileOptions", "parseStripeConfig", "parseCategoryMessageOptions"}

NilOptions == [nil |-> TRUE]

optEmpty(fn) ==
    CASE fn = "parseCategoryFileOptions"    -> EmptyFileOptions
      [] fn = "parseStripeConfig"           -> EmptyStripeConfig
      [] fn = "parseCategoryMessageOptions" -> EmptyMessageOptions

optIter(fn, data, opts) ==
    CASE fn = "parseCategoryFileOptions"    -> fileIter(data, opts)
      [] fn = "parseStripeConfig"           -> stripeIter(data, opts)
      [] fn = "parseCategoryMessageOptions" -> messageIter(data, opts)

MaxOptPieces == 3

OptPieces ==
    { <<8>>,            \* tag: field 1, varint
      <<10>>,           \* tag: field 1, length-delimited
      <<18>>,           \* tag: field 2, length-delimited
      <<13>>,           \* tag: field 1, 32-bit
      <<9>>,            \* tag: field 1, 64-bit
      <<11>>,           \* tag: field 1, start-group
      <<1>>, <<2>>, <<0>>,
      <<128>>,
      <<16, 1>>,        \* field 2 = 1
      <<0, 0, 0, 0>>,
      <<82, 3, 10, 1, 65>>,              \* field 10 = { field 1 = "A" }
      <<8, 5, 8, 6>>,                    \* field 1 = 5, field 1 = 6
      <<255, 255, 255, 255, 255, 255, 255, 255, 255, 127>> }

InitOpt ==
    /\ oFn \in OptFns
    /\ oIn \in {NilBytes} \cup {SomeBytes(Flatten(ps)) : ps \in SeqsUpTo(OptPieces, MaxOptPieces)}
    /\ oData = oIn.val
    /\ oOpts = optEmpty(oFn)
    /\ oSt = "entry"
    /\ oBad = FALSE

\* if data == nil { return nil };  opts := &...{}
OptEnter ==
    /\ oSt = "entry"
    /\ IF oIn.nil
       THEN oSt' = "done" /\ oOpts' = NilOptions
       ELSE oSt' = "loop" /\ oOpts' = oOpts
    /\ UNCHANGED <<oFn, oIn, oData, oBad>>
    /\ UNCHANGED <<tagVars, extVars, idVars, genVars, fragVars, foldVars, runVars, memVars>>

\* one pass of the parser's loop
OptStep ==
    /\ oSt = "loop"
    /\ LET r == optIter(oFn, oData, oOpts)
       IN  /\ oData' = r.data
           /\ oOpts' = r.opts
           /\ oSt' = IF r.go THEN "loop" ELSE "done"
           /\ oBad' = (oBad \/ r.bad)
    /\ UNCHANGED <<oFn, oIn>>
    /\ UNCHANGED <<tagVars, extVars, idVars, genVars, fragVars, foldVars, runVars, memVars>>

-----------------------------------------------------------------------------
(* Names.  A name is a sequence of one-character strings.                  *)

Uppers == <<"A", "B", "C", "D", "E", "F", "G", "H", "I", "J", "K", "L", "M",
            "N", "O", "P", "Q", "R", "S", "T", "U", "V", "W", "X", "Y", "Z">>

Lowers == <<"a", "b", "c", "d", "e", "f", "g", "h", "i", "j", "k", "l", "m",
            "n", "o", "p", "q", "r", "s", "t", "u", "v", "w", "x", "y", "z">>

Digits == {"0", "1", "2", "3", "4", "5", "6", "7", "8", "9"}

IsUpperCh(c) == \E k \in 1..Len(Uppers) : Uppers[k] = c

IsLowerCh(c) == \E k \in 1..Len(Lowers) : Lowers[k] = c

ToLowerCh(c) ==
    IF IsUpperCh(c) THEN Lowers[CHOOSE k \in 1..Len(Uppers) : Uppers[k] = c] ELSE c

ToUpperCh(c) ==
    IF IsLowerCh(c) THEN Uppers[CHOOSE k \in 1..Len(Lowers) : Lowers[k] = c] ELSE c

\* strings.ToLower
ToLower(s) == [k \in 1..Len(s) |-> ToLowerCh(s[k])]

\* strings.EqualFold, on the letters A-Z and a-z
EqualFold(s, t) == ToLower(s) = ToLower(t)

\* strings.HasPrefix
HasPrefix(s, pre) == Len(s) >= Len(pre) /\ Take(s, Len(pre)) = pre

\* strings.HasSuffix
HasSuffix(s, suf) == Len(s) >= Len(suf) /\ Drop(s, Len(s) - Len(suf)) = suf

\* strings.TrimPrefix
TrimPrefix(s, pre) == IF HasPrefix(s, pre) THEN Drop(s, Len(pre)) ELSE s

\* strings.TrimSuffix
TrimSuffix(s, suf) == IF HasSuffix(s, suf) THEN Take(s, Len(s) - Len(suf)) ELSE s

\* lowerFirst
lowerFirst(s) == IF Len(s) = 0 THEN s ELSE <<ToLowerCh(s[1])>> \o Drop(s, 1)

\* protogen's GoName of a field: strs.GoCamelCase of the declared name (a
\* field name holds no '.').  An underscore before a lower-case letter is
\* dropped and the letter raised; a leading underscore becomes X.
RECURSIVE GoCamelFrom(_, _, _)
GoCamelFrom(s, k, out) ==
    IF k > Len(s) THEN out
    ELSE
      LET c == s[k]
          \* the run of lower-case letters that follows position j
          runEnd(j) == CHOOSE e \in j..Len(s) :
                          /\ \A m \in (j + 1)..e : IsLowerCh(s[m])
                          /\ (e = Len(s) \/ ~IsLowerCh(s[e + 1]))
      IN  IF c = "_" /\ k = 1
          THEN GoCamelFrom(s, k + 1, Append(out, "X"))
          ELSE IF c = "_" /\ k + 1 <= Len(s) /\ IsLowerCh(s[k + 1])
          THEN GoCamelFrom(s, k + 1, out)
          ELSE IF c \in Digits
          THEN GoCamelFrom(s, k + 1, Append(out, c))
          ELSE GoCamelFrom(s, runEnd(k) + 1,
                           Append(out, ToUpperCh(c)) \o SubSeq(s, k + 1, runEnd(k)))

GoName(name) == GoCamelFrom(name, 1, <<>>)

-----------------------------------------------------------------------------
(* The identifier-field resolvers.  A field is [name, kind, list, elem]:   *)
(* its declared name, its kind, whether it is repeated, and the message    *)
(* type it refers to (for kind "message").                                 *)

IdName == <<"i", "d">>

IdSuffix == <<"_", "i", "d">>

\* strings.EqualFold(name, "id")
isIdName(name) == EqualFold(name, IdName)

\* strings.HasSuffix(strings.ToLower(name), "_id")
hasIdSuffix(name) == HasSuffix(ToLower(name), IdSuffix)

\* the first element of fs that satisfies the test: the index, 0 for none
FirstIdName(fs) ==
    IF \E k \in 1..Len(fs) : isIdName(fs[k].name)
    THEN CHOOSE k \in 1..Len(fs) :
            isIdName(fs[k].name) /\ \A j \in 1..(k - 1) : ~isIdName(fs[j].name)
    ELSE 0

FirstIdSuffix(fs) ==
    IF \E k \in 1..Len(fs) : hasIdSuffix(fs[k].name)
    THEN CHOOSE k \in 1..Len(fs) :
            hasIdSuffix(fs[k].name) /\ \A j \in 1..(k - 1) : ~hasIdSuffix(fs[j].name)
    ELSE 0

FirstString(fs) ==
    IF \E k \in 1..Len(fs) : fs[k].kind = "string"
    THEN CHOOSE k \in 1..Len(fs) :
            fs[k].kind = "string" /\ \A j \in 1..(k - 1) : fs[j].kind # "string"
    ELSE 0

\* service-stubs and connect-server: the sentinel GoName
SentinelGoName == <<"I", "d">>

\* firestore: findIDField's last return
SentinelName == <<"i", "d">>

\* one loop that returns the first field that is named id or ends in _id
RECURSIVE findIDFieldOnePass(_)
findIDFieldOnePass(fs) ==
    IF fs = <<>> THEN SentinelName
    ELSE IF isIdName(Head(fs).name) \/ hasIdSuffix(Head(fs).name)
    THEN Head(fs).name
    ELSE findIDFieldOnePass(Tail(fs))

\* firestore plugin, findIDField: three loops, one per rule
findIDField(fs) ==
    IF FirstIdName(fs) # 0 THEN fs[FirstIdName(fs)].name
    ELSE IF FirstIdSuffix(fs) # 0 THEN fs[FirstIdSuffix(fs)].name
    ELSE IF FirstString(fs) # 0 THEN fs[FirstString(fs)].name
    ELSE SentinelName

\* service-stubs, getIDField: one loop, both tests on each field in turn
RECURSIVE getIDField(_)
getIDField(fs) ==
    IF fs = <<>> THEN SentinelGoName
    ELSE IF isIdName(Head(fs).name) THEN GoName(Head(fs).name)
    ELSE IF hasIdSuffix(Head(fs).name) THEN GoName(Head(fs).name)
    ELSE getIDField(Tail(fs))

\* connect-server, getEntityConfig: one loop; id ends it, the first _id is
\* kept while idGoName still is "Id"
RECURSIVE entityIDFrom(_, _)
entityIDFrom(fs, idGoName) ==
    IF fs = <<>> THEN idGoName
    ELSE IF isIdName(Head(fs).name) THEN GoName(Head(fs).name)
    ELSE IF hasIdSuffix(Head(fs).name) /\ idGoName = SentinelGoName
    THEN entityIDFrom(Tail(fs), GoName(Head(fs).name))
    ELSE entityIDFrom(Tail(fs), idGoName)

entityIDGoName(fs) == entityIDFrom(fs, SentinelGoName)

Fld(name, kind) == [name |-> name, kind |-> kind, list |-> FALSE, elem |-> <<>>]

RepeatedMsg(name, elem) == [name |-> name, kind |-> "message", list |-> TRUE, elem |-> elem]

MaxIdFields == 3

IdFieldPool ==
    { Fld(<<"i", "d">>, "string"),
      Fld(<<"I", "d">>, "int64"),
      Fld(<<"t", "_", "i", "d">>, "string"),
      Fld(<<"O", "_", "I", "D">>, "int32"),
      Fld(<<"u", "i", "d">>, "int32"),
      Fld(<<"n", "a", "m", "e">>, "string"),
      Fld(<<"b", "i", "o">>, "bytes") }

\* the names of the fields of one message differ
DistinctNames(fs) == \A j, k \in 1..Len(fs) : j # k => fs[j].name # fs[k].name

Resolvers == {"findIDField", "getIDField", "getEntityConfig"}

Unset == [set |-> FALSE, val |-> <<>>]

InitId ==
    /\ iFields \in {fs \in SeqsUpTo(IdFieldPool, MaxIdFields) : DistinctNames(fs)}
    /\ iRes = [r \in Resolvers |-> Unset]

\* firestore: findIDField(msg)
ResolveFind ==
    /\ ~iRes["findIDField"].set
    /\ iRes' = [iRes EXCEPT !["findIDField"] = [set |-> TRUE, val |-> findIDField(iFields)]]
    /\ UNCHANGED iFields
    /\ UNCHANGED <<tagVars, extVars, optVars, genVars, fragVars, foldVars, runVars, memVars>>

\* service-stubs: getIDField(msg)
ResolveGet ==
    /\ ~iRes["getIDField"].set
    /\ iRes' = [iRes EXCEPT !["getIDField"] = [set |-> TRUE, val |-> getIDField(iFields)]]
    /\ UNCHANGED iFields
    /\ UNCHANGED <<tagVars, extVars, optVars, genVars, fragVars, foldVars, runVars, memVars>>

\* connect-server: the IDGoName of getEntityConfig(msg)
ResolveConfig ==
    /\ ~iRes["getEntityConfig"].set
    /\ iRes' = [iRes EXCEPT !["getEntityConfig"] =
                    [set |-> TRUE, val |-> entityIDGoName(iFields)]]
    /\ UNCHANGED iFields
    /\ UNCHANGED <<tagVars, extVars, optVars, genVars, fragVars, foldVars, runVars, memVars>>

-----------------------------------------------------------------------------
(* The schema file the plug-ins are run on.  A message is [GoName, opts,   *)
(* fields] with opts the marshalled MessageOptions; a service is [GoName,  *)
(* methods]; a method is [name, input, output], the two types by GoName.   *)

nUser == <<"U", "s", "e", "r">>

nOrder == <<"O", "r", "d", "e", "r">>

nItem == <<"I", "t", "e", "m">>

nIdRequest == <<"I", "d", "R", "e", "q", "u", "e", "s", "t">>

nListUsersResponse == <<"L", "i", "s", "t", "U", "s", "e", "r", "s", "R", "e", "s", "p", "o", "n", "s", "e">>

\* google.protobuf.Empty, a message of another file
nEmpty == <<"E", "m", "p", "t", "y">>

nEmptyPb == <<"e", "m", "p", "t", "y", "p", "b", ".", "E", "m", "p", "t", "y">>

\* MessageOptions with the entity extension set to an empty message
EntityOpts == Tag50000 \o <<0>>

\* MessageOptions with deprecated = true only
PlainOpts == <<24, 1>>

Msg(goName, opts, fields) == [GoName |-> goName, opts |-> opts, fields |-> fields]

\* two entities, User and Order, and three messages that are none
FileMessages ==
    << Msg(nUser, EntityOpts, <<Fld(<<"i", "d">>, "string"), Fld(<<"n", "a", "m", "e">>, "string")>>),
       Msg(nOrder, EntityOpts, <<Fld(<<"t", "_", "i", "d">>, "string"), Fld(<<"i", "d">>, "string")>>),
       Msg(nItem, PlainOpts, <<Fld(<<"i", "d">>, "string")>>),
       Msg(nIdRequest, <<>>, <<Fld(<<"i", "d">>, "string")>>),
       Msg(nListUsersResponse, <<>>,
           <<Fld(<<"t", "o", "t", "a", "l">>, "int32"), RepeatedMsg(<<"u", "s", "e", "r", "s">>, nUser)>>) >>

MethodNames == {<<"G", "e", "t", "U", "s", "e", "r">>, <<"D", "e", "l", "e", "t", "e", "O", "r", "d", "e", "r">>, <<"L", "i", "s", "t", "U", "s", "e", "r", "s">>, <<"G", "e", "t", "I", "t", "e", "m">>, <<"F", "e", "t", "c", "h", "U", "s", "e", "r">>}

\* the input and the output type of a method: an id request for an entity,
\* an id request for nothing, nothing for a list
Shapes ==
    { [input |-> nIdRequest, output |-> nUser],
      [input |-> nIdRequest, output |-> nEmpty],
      [input |-> nEmpty, output |-> nListUsersResponse] }

MethodPool ==
    {[name |-> n, input |-> sh.input, output |-> sh.output] : n \in MethodNames, sh \in Shapes}

ServiceNames == <<<<"U", "s", "e", "r", "s">>, <<"A", "d", "m", "i", "n">>>>

MaxMethods == 2

\* the methods of one service have different names
DistinctMethods(ms) == \A j, k \in 1..Len(ms) : j # k => ms[j].name # ms[k].name

\* the services a list of methods gives when the first cut of them go to
\* the first service and the rest to the second
ServicesOf(ms, cut) ==
    LET first  == [GoName |-> ServiceNames[1], methods |-> Take(ms, cut)]
        second == [GoName |-> ServiceNames[2], methods |-> Drop(ms, cut)]
    IN  IF ms = <<>> THEN <<>>
        ELSE IF cut = Len(ms) THEN <<first>>
        ELSE <<first, second>>

Files ==
    {[messages |-> FileMessages, services |-> ServicesOf(p[1], p[2])] :
        p \in {q \in SeqsUpTo(MethodPool, MaxMethods) \X (0..MaxMethods) :
                  /\ q[2] <= Len(q[1])
                  /\ Len(q[1]) > 0 => q[2] > 0
                  /\ DistinctMethods(Take(q[1], q[2]))
                  /\ DistinctMethods(Drop(q[1], q[2]))}}

\* the fields of the file's message of that GoName; none for a message of
\* another file
RECURSIVE FindMessage(_, _)
FindMessage(msgs, goName) ==
    IF msgs = <<>> THEN [found |-> FALSE, fields |-> <<>>]
    ELSE IF Head(msgs).GoName = goName THEN [found |-> TRUE, fields |-> Head(msgs).fields]
    ELSE FindMessage(Tail(msgs), goName)


\* the methods of the files service-stubs is run on alone: one for each
\* operation it writes a body for, one of an entity that is none, one of no
\* operation
HandlerPool ==
    { [name |-> <<"G", "e", "t", "U", "s", "e", "r">>, input |-> nIdRequest, output |-> nUser],
      [name |-> <<"L", "i", "s", "t", "U", "s", "e", "r", "s">>, input |-> nEmpty, output |-> nListUsersResponse],
      [name |-> <<"D", "e", "l", "e", "t", "e", "O", "r", "d", "e", "r">>, input |-> nIdRequest, output |-> nEmpty],
      [name |-> <<"G", "e", "t", "I", "t", "e", "m">>, input |-> nIdRequest, output |-> nUser],
      [name |-> <<"F", "e", "t", "c", "h", "U", "s", "e", "r">>, input |-> nIdRequest, output |-> nUser] }

MaxHandlers == 3

StubFiles ==
    {[messages |-> FileMessages, services |-> ServicesOf(p[1], p[2])] :
        p \in {q \in SeqsUpTo(HandlerPool, MaxHandlers) \X (0..MaxHandlers) :
                  /\ q[2] <= Len(q[1])
                  /\ Len(q[1]) > 0 => q[2] > 0
                  /\ DistinctMethods(q[1])}}

-----------------------------------------------------------------------------
(* protoc-gen-service-stubs: entity map and method analysis.               *)

\* hasEntityOption: the options marshalled, then containsTag
hasEntityOption(msg) == containsTag(msg.opts, entityExtensionNumber)


\* the entity map kept from one file of the run to the next: what the file
\* before registered is still in it
RECURSIVE stubEntitiesAmbient(_, _)
stubEntitiesAmbient(msgs, entities) ==
    IF msgs = <<>>
    THEN [k \in DOMAIN entities \cup DOMAIN gEntities |->
             IF k \in DOMAIN entities THEN entities[k] ELSE gEntities[k]]
    ELSE LET msg == Head(msgs)
         IN  IF hasEntityOption(msg)
             THEN stubEntitiesAmbient(Tail(msgs),
                      [k \in DOMAIN entities \cup {msg.GoName} |->
                          IF k = msg.GoName
                          THEN [GoName |-> msg.GoName, IDField |-> getIDField(msg.fields)]
                          ELSE entities[k]])
             ELSE stubEntitiesAmbient(Tail(msgs), entities)

\* main: entities[msg.GoIdent.GoName] = &EntityInfo{...} for each message
RECURSIVE stubEntities(_, _)
stubEntities(msgs, entities) ==
    IF msgs = <<>> THEN entities
    ELSE LET msg == Head(msgs)
         IN  IF hasEntityOption(msg)
             THEN stubEntities(Tail(msgs),
                      [k \in DOMAIN entities \cup {msg.GoName} |->
                          IF k = msg.GoName
                          THEN [GoName |-> msg.GoName, IDField |-> getIDField(msg.fields)]
                          ELSE entities[k]])
             ELSE stubEntities(Tail(msgs), entities)

\* an empty Go map
EmptyMap == [k \in {} |-> <<>>]

\* the first repeated message field of the message: its GoName, "" for none
RECURSIVE firstListField(_)
firstListField(fs) ==
    IF fs = <<>> THEN <<>>
    ELSE IF Head(fs).list /\ Head(fs).kind = "message" THEN GoName(Head(fs).name)
    ELSE firstListField(Tail(fs))

\* "Fix Empty types"
fixEmptyType(t) == IF t = nEmpty THEN nEmptyPb ELSE t

\* "Detect operation and entity": by the prefix of the declared name
stubOpEntity(m) ==
    IF HasPrefix(m.name, <<"G", "e", "t">>)
    THEN [op |-> "get", entity |-> TrimPrefix(m.name, <<"G", "e", "t">>)]
    ELSE IF HasPrefix(m.name, <<"L", "i", "s", "t">>)
    THEN [op |-> "list", entity |-> TrimSuffix(TrimPrefix(m.name, <<"L", "i", "s", "t">>), <<"s">>)]
    ELSE IF HasPrefix(m.name, <<"D", "e", "l", "e", "t", "e">>)
    THEN [op |-> "delete", entity |-> TrimPrefix(m.name, <<"D", "e", "l", "e", "t", "e">>)]
    ELSE IF HasPrefix(m.name, <<"C", "r", "e", "a", "t", "e">>)
    THEN [op |-> "create", entity |-> TrimPrefix(m.name, <<"C", "r", "e", "a", "t", "e">>)]
    ELSE IF HasPrefix(m.name, <<"U", "p", "d", "a", "t", "e">>)
    THEN [op |-> "update", entity |-> TrimPrefix(m.name, <<"U", "p", "d", "a", "t", "e">>)]
    ELSE [op |-> "", entity |-> <<>>]

analyzeMethod(m, entities, msgs) ==
    LET oe   == stubOpEntity(m)
        info == [GoName |-> GoName(m.name), InputType |-> fixEmptyType(m.input),
                 OutputType |-> fixEmptyType(m.output),
                 Op |-> "", Entity |-> <<>>, IDField |-> <<>>, ListField |-> <<>>]
    IN  IF oe.entity \in DOMAIN entities
        THEN [info EXCEPT !.Op = oe.op, !.Entity = oe.entity,
                          !.IDField = entities[oe.entity].IDField,
                          !.ListField = IF oe.op = "list"
                                        THEN firstListField(FindMessage(msgs, m.output).fields)
                                        ELSE <<>>]
        ELSE info


\* the analysis given up at the first method left without an operation
stubServiceUntilUnclassified(svc, entities, msgs) ==
    LET all  == [k \in 1..Len(svc.methods) |-> analyzeMethod(svc.methods[k], entities, msgs)]
        stop == {k \in 1..Len(all) : all[k].Op = ""}
        n    == IF stop = {} THEN Len(all)
                ELSE (CHOOSE k \in stop : \A j \in stop : k <= j) - 1
    IN  [GoName |-> svc.GoName, Methods |-> Take(all, n)]

\* main: the ServiceInfo of one service
stubService(svc, entities, msgs) ==
    [GoName |-> svc.GoName,
     Methods |-> [k \in 1..Len(svc.methods) |-> analyzeMethod(svc.methods[k], entities, msgs)]]

-----------------------------------------------------------------------------
(* protoc-gen-connect-server: entity map and method extraction.            *)

\* main: entities[msg.GoIdent.GoName] = cfg for each message with a config
RECURSIVE serverEntities(_, _)
serverEntities(msgs, entities) ==
    IF msgs = <<>> THEN entities
    ELSE LET msg == Head(msgs)
         IN  IF hasEntityOption(msg)
             THEN serverEntities(Tail(msgs),
                      [k \in DOMAIN entities \cup {msg.GoName} |->
                          IF k = msg.GoName
                          THEN [GoName |-> msg.GoName, IDGoName |-> entityIDGoName(msg.fields)]
                          ELSE entities[k]])
             ELSE serverEntities(Tail(msgs), entities)

\* "Skip special methods"
SpecialEntities ==
    {<<"C", "u", "r", "r", "e", "n", "t", "U", "s", "e", "r">>, <<"C", "u", "r", "r", "e", "n", "t", "S", "e", "s", "s", "i", "o", "n">>, <<"S", "u", "b", "s", "c", "r", "i", "p", "t", "i", "o", "n">>, <<"B", "i", "l", "l", "i", "n", "g", "P", "o", "r", "t", "a", "l", "U", "r", "l">>, <<"U", "s", "a", "g", "e">>,
     <<"T", "e", "n", "a", "n", "t", "S", "t", "a", "t">>, <<"2", "F", "A", "S", "t", "a", "t", "u", "s">>, <<"C", "A", "C", "h", "a", "i", "n">>, <<"C", "R", "L">>}

serverOpEntity(name) ==
    IF HasPrefix(name, <<"G", "e", "t">>)
    THEN [op |-> "get", entity |-> TrimPrefix(name, <<"G", "e", "t">>)]
    ELSE IF HasPrefix(name, <<"L", "i", "s", "t">>)
    THEN [op |-> "list", entity |-> TrimSuffix(TrimPrefix(name, <<"L", "i", "s", "t">>), <<"s">>)]
    ELSE IF HasPrefix(name, <<"D", "e", "l", "e", "t", "e">>)
    THEN [op |-> "delete", entity |-> TrimPrefix(name, <<"D", "e", "l", "e", "t", "e">>)]
    ELSE [op |-> "", entity |-> <<>>]

RECURSIVE extractMethods(_, _, _)
extractMethods(ms, entities, msgs) ==
    IF ms = <<>> THEN <<>>
    ELSE
      LET m  == Head(ms)
          oe == serverOpEntity(m.name)
      IN  IF \/ oe.op = ""
             \/ oe.entity \in SpecialEntities
             \/ oe.entity \notin DOMAIN entities
          THEN extractMethods(Tail(ms), entities, msgs)
          ELSE <<[GoName |-> GoName(m.name), InputType |-> fixEmptyType(m.input),
                  OutputType |-> fixEmptyType(m.output),
                  OutputMsg |-> FindMessage(msgs, m.output),
                  Entity |-> oe.entity, Config |-> entities[oe.entity], Op |-> oe.op]>>
               \o extractMethods(Tail(ms), entities, msgs)

-----------------------------------------------------------------------------
(* protoc-gen-connect-server, the generator built on the monoid:           *)
(* ExtractServiceInfo.                                                     *)

EntityPrefixes ==
    <<<<"C", "r", "e", "a", "t", "e">>, <<"G", "e", "t">>, <<"L", "i", "s", "t">>, <<"U", "p", "d", "a", "t", "e">>, <<"D", "e", "l", "e", "t", "e">>, <<"S", "o", "f", "t", "D", "e", "l", "e", "t", "e">>, <<"R", "e", "s", "t", "o", "r", "e">>>>

RECURSIVE entityNameFrom(_, _)
entityNameFrom(methodName, prefixes) ==
    IF prefixes = <<>> THEN methodName
    ELSE IF HasPrefix(methodName, Head(prefixes))
    THEN TrimSuffix(TrimPrefix(methodName, Head(prefixes)), <<"s">>)
    ELSE entityNameFrom(methodName, Tail(prefixes))

extractEntityName(methodName) == entityNameFrom(methodName, EntityPrefixes)

extractOperation(methodName) ==
    LET lower == ToLower(methodName)
    IN  CASE HasPrefix(lower, <<"c", "r", "e", "a", "t", "e">>)     -> "create"
          [] HasPrefix(lower, <<"g", "e", "t">>)        -> "get"
          [] HasPrefix(lower, <<"l", "i", "s", "t">>)       -> "list"
          [] HasPrefix(lower, <<"u", "p", "d", "a", "t", "e">>)     -> "update"
          [] HasPrefix(lower, <<"d", "e", "l", "e", "t", "e">>)     -> "delete"
          [] HasPrefix(lower, <<"s", "o", "f", "t", "d", "e", "l", "e", "t", "e">>) -> "softdelete"
          [] HasPrefix(lower, <<"r", "e", "s", "t", "o", "r", "e">>)    -> "restore"
          [] OTHER                           -> "custom"

ExtractServiceInfo(svc) ==
    [GoName |-> svc.GoName,
     Methods |-> [k \in 1..Len(svc.methods) |->
                    [Name |-> svc.methods[k].name,
                     GoName |-> GoName(svc.methods[k].name),
                     InputType |-> svc.methods[k].input,
                     OutType |-> svc.methods[k].output,
                     EntityName |-> extractEntityName(svc.methods[k].name),
                     Operation |-> extractOperation(svc.methods[k].name)]]]

-----------------------------------------------------------------------------
(* Rendered text.  A text is a sequence of atoms: a newline and a tab are  *)
(* atoms of their own, a name gives one atom per character, and any other  *)
(* run of literal characters is one atom.                                  *)

\* var empty = Code{Run: func() string { return "" }}
empty == <<>>


\* append2 that ends what it puts together with a newline
append2Newline(a, b) == a \o b \o <<"\n">>

\* append2(a, b): a.Run() + b.Run()
append2(a, b) == a \o b

\* concat(codes...): append2 folded over the codes, from empty
RECURSIVE concatInto(_, _)
concatInto(result, codes) ==
    IF codes = <<>> THEN result
    ELSE concatInto(append2(result, Head(codes)), Tail(codes))

concat(codes) == concatInto(empty, codes)

\* line(s): s + "\n"
line(s) == s \o <<"\n">>

\* blank(): line("")
blank == line(<<>>)

\* strings.Split(text, "\n"): the lines, the text after the last newline
\* being the last of them
RECURSIVE SplitLines(_, _)
SplitLines(text, cur) ==
    IF text = <<>> THEN <<cur>>
    ELSE IF Head(text) = "\n" THEN <<cur>> \o SplitLines(Tail(text), <<>>)
    ELSE SplitLines(Tail(text), Append(cur, Head(text)))

\* strings.Join(parts, sep)
RECURSIVE Join(_, _)
Join(parts, sep) ==
    IF parts = <<>> THEN <<>>
    ELSE IF Len(parts) = 1 THEN Head(parts)
    ELSE Head(parts) \o sep \o Join(Tail(parts), sep)


\* indent that puts the tab before the empty lines too
indentEveryLine(c) ==
    LET ls == SplitLines(c, <<>>)
    IN  Join([k \in 1..Len(ls) |-> <<"\t">> \o ls[k]], <<"\n">>)

\* indent(c): a tab before every line that is not empty
indent(c) ==
    LET ls == SplitLines(c, <<>>)
    IN  Join([k \in 1..Len(ls) |-> IF ls[k] = <<>> THEN <<>> ELSE <<"\t">> \o ls[k]], <<"\n">>)

\* strings.ToUpper
ToUpper(s) == [k \in 1..Len(s) |-> ToUpperCh(s[k])]

\* extractPkgName: what stands behind the last "/" of the import path
RECURSIVE extractPkgName(_)
extractPkgName(importPath) ==
    IF \E k \in 1..Len(importPath) : importPath[k] = "/"
    THEN extractPkgName(Tail(importPath))
    ELSE importPath

\* f.GoPackageName and f.GoImportPath of the schema file
GoPackageName == <<"p", "b">>

GoImportPath == <<"x", ".", "i", "o", "/", "p", "b">>

-----------------------------------------------------------------------------
(* protoc-gen-service-stubs: the generators.                               *)

generateHeader(pkgName, connectPkg) ==
    concat(<<
      line(<<"// Code generated by protoc-gen-service-stubs. DO NOT EDIT.">>),
      line(<<"// Service implementations wired to Firestore repositories.">>),
      line(<<"// Override methods as needed for custom business logic.">>),
      blank,
      line(<<"package ">> \o pkgName),
      blank,
      line(<<"import (">>),
      line(<<"\t", "\"context\"">>),
      line(<<"\t", "\"errors\"">>),
      blank,
      line(<<"\t", "\"connectrpc.com/connect\"">>),
      line(<<"\t", "\"github.com/google/wire\"">>),
      line(<<"\t", "\"google.golang.org/protobuf/types/known/emptypb\"">>),
      line(<<"\t", "\"">> \o connectPkg \o <<"\"">>),
      line(<<")">>),
      blank,
      line(<<"// Ensure imports are used">>),
      line(<<"var (">>),
      line(<<"\t", "_ = emptypb.Empty{}">>),
      line(<<"\t", "_ = wire.NewSet">>),
      line(<<")">>),
      blank
    >>)

generateGet(m) ==
    concat(<<
      line(<<"\t", "id := req.Msg.Get">> \o m.IDField \o <<"()">>),
      line(<<"\t", "if id == \"\" {">>),
      line(<<"\t", "\t", "return nil, connect.NewError(connect.CodeInvalidArgument, errors.New(\"id required\"))">>),
      line(<<"\t", "}">>),
      line(<<"\t", "entity, err := s.repos.">> \o m.Entity \o <<".Get(ctx, id)">>),
      line(<<"\t", "if err != nil {">>),
      line(<<"\t", "\t", "if errors.Is(err, ErrNotFound) {">>),
      line(<<"\t", "\t", "\t", "return nil, connect.NewError(connect.CodeNotFound, err)">>),
      line(<<"\t", "\t", "}">>),
      line(<<"\t", "\t", "return nil, connect.NewError(connect.CodeInternal, err)">>),
      line(<<"\t", "}">>),
      line(<<"\t", "return connect.NewResponse(entity), nil">>)
    >>)

\* listField := m.ListField; if listField == "" { listField = m.Entity + "s" }
stubListField(m) == IF m.ListField = <<>> THEN m.Entity \o <<"s">> ELSE m.ListField

generateList(m) ==
    IF m.InputType = nEmptyPb
    THEN concat(<<
           line(<<"\t", "entities, err := s.repos.">> \o m.Entity \o <<".List(ctx, 100)">>),
           line(<<"\t", "if err != nil {">>),
           line(<<"\t", "\t", "return nil, connect.NewError(connect.CodeInternal, err)">>),
           line(<<"\t", "}">>),
           line(<<"\t", "return connect.NewResponse(&">> \o m.OutputType \o <<"{">> \o stubListField(m) \o <<": entities}), nil">>)
         >>)
    ELSE concat(<<
           line(<<"\t", "limit := int(req.Msg.GetLimit())">>),
           line(<<"\t", "if limit <= 0 || limit > 100 {">>),
           line(<<"\t", "\t", "limit = 100">>),
           line(<<"\t", "}">>),
           line(<<"\t", "entities, err := s.repos.">> \o m.Entity \o <<".List(ctx, limit)">>),
           line(<<"\t", "if err != nil {">>),
           line(<<"\t", "\t", "return nil, connect.NewError(connect.CodeInternal, err)">>),
           line(<<"\t", "}">>),
           line(<<"\t", "return connect.NewResponse(&">> \o m.OutputType \o <<"{">> \o stubListField(m) \o <<": entities}), nil">>)
         >>)

generateDelete(m) ==
    concat(<<
      line(<<"\t", "id := req.Msg.Get">> \o m.IDField \o <<"()">>),
      line(<<"\t", "if id == \"\" {">>),
      line(<<"\t", "\t", "return nil, connect.NewError(connect.CodeInvalidArgument, errors.New(\"id required\"))">>),
      line(<<"\t", "}">>),
      line(<<"\t", "if err := s.repos.">> \o m.Entity \o <<".Delete(ctx, id); err != nil {">>),
      line(<<"\t", "\t", "if errors.Is(err, ErrNotFound) {">>),
      line(<<"\t", "\t", "\t", "return nil, connect.NewError(connect.CodeNotFound, err)">>),
      line(<<"\t", "\t", "}">>),
      line(<<"\t", "\t", "return nil, connect.NewError(connect.CodeInternal, err)">>),
      line(<<"\t", "}">>),
      line(<<"\t", "return connect.NewResponse(&emptypb.Empty{}), nil">>)
    >>)

generateCreate(m) ==
    concat(<<
      line(<<"\t", "// TODO: Implement create logic">>),
      line(<<"\t", "// - Validate input">>),
      line(<<"\t", "// - Set defaults (CreatedAt, UpdatedAt)">>),
      line(<<"\t", "// - Call s.xxxRepo.Create(ctx, entity)">>),
      line(<<"\t", "return nil, connect.NewError(connect.CodeUnimplemented, errors.New(\"not implemented\"))">>)
    >>)

generateUpdate(m) ==
    concat(<<
      line(<<"\t", "// TODO: Implement update logic">>),
      line(<<"\t", "// - Get existing entity">>),
      line(<<"\t", "// - Apply updates from request">>),
      line(<<"\t", "// - Set UpdatedAt">>),
      line(<<"\t", "// - Call s.xxxRepo.Update(ctx, entity)">>),
      line(<<"\t", "return nil, connect.NewError(connect.CodeUnimplemented, errors.New(\"not implemented\"))">>)
    >>)

generateUnimplemented ==
    line(<<"\t", "return nil, connect.NewError(connect.CodeUnimplemented, errors.New(\"not implemented\"))">>)

stubBody(m) ==
    CASE m.Op = "get"    -> generateGet(m)
      [] m.Op = "list"   -> generateList(m)
      [] m.Op = "delete" -> generateDelete(m)
      [] m.Op = "create" -> generateCreate(m)
      [] m.Op = "update" -> generateUpdate(m)
      [] OTHER           -> generateUnimplemented

generateMethod(svcName, m) ==
    concat(<<
      blank,
      line(<<"func (">> \o (<<"s *">> \o svcName) \o <<") ">> \o m.GoName \o <<"(">> \o (<<"ctx context.Context, req *connect.Request[">> \o m.InputType \o <<"]">>) \o <<") ">> \o (<<"(*connect.Response[">> \o m.OutputType \o <<"], error)">>) \o <<" {">>),
      stubBody(m),
      line(<<"}">>)
    >>)

\* methods := empty; for each method: methods = append2(methods, generateMethod(...))
RECURSIVE stubMethods(_, _, _)
stubMethods(svcName, ms, methods) ==
    IF ms = <<>> THEN methods
    ELSE stubMethods(svcName, Tail(ms), append2(methods, generateMethod(svcName, Head(ms))))

generateService(svc, connectPkg) ==
    concat(<<
      line(<<"// =============================================================================">>),
      line(<<"// ">> \o ToUpper(svc.GoName)),
      line(<<"// =============================================================================">>),
      blank,
      line(<<"type ">> \o svc.GoName \o <<" struct {">>),
      line(<<"\t">> \o extractPkgName(connectPkg) \o <<".Unimplemented">> \o svc.GoName \o <<"Handler">>),
      line(<<"\t", "repos *Repositories">>),
      line(<<"}">>),
      blank,
      line(<<"func New">> \o svc.GoName \o <<"(repos *Repositories) *">> \o svc.GoName \o <<" {">>),
      line(<<"\t", "return &">> \o svc.GoName \o <<"{repos: repos}">>),
      line(<<"}">>),
      stubMethods(svc.GoName, svc.Methods, empty),
      blank
    >>)

RECURSIVE generateServicesFrom(_, _, _)
generateServicesFrom(services, connectPkg, result) ==
    IF services = <<>> THEN result
    ELSE generateServicesFrom(Tail(services), connectPkg,
                              append2(result, generateService(Head(services), connectPkg)))

generateServices(services, connectPkg) == generateServicesFrom(services, connectPkg, empty)

RECURSIVE stubProviders(_, _)
stubProviders(services, providers) ==
    IF services = <<>> THEN providers
    ELSE stubProviders(Tail(services),
                       append2(providers, line(<<"\t", "New">> \o Head(services).GoName \o <<",">>)))

generateWireProviders(services) ==
    concat(<<
      line(<<"// =============================================================================">>),
      line(<<"// WIRE PROVIDERS">>),
      line(<<"// =============================================================================">>),
      blank,
      line(<<"// ServiceSet provides all service constructors for Wire.">>),
      line(<<"var ServiceSet = wire.NewSet(">>),
      stubProviders(services, empty),
      line(<<")">>),
      blank
    >>)

generateFile(services, pkgName, connectPkg) ==
    concat(<<
      generateHeader(pkgName, connectPkg),
      generateServices(services, connectPkg),
      generateWireProviders(services)
    >>)

-----------------------------------------------------------------------------
(* protoc-gen-connect-server: the generators.  A range over a Go map takes *)
(* its keys in an order the language leaves open; the generators get that  *)
(* order as an argument.                                                   *)

\* every order a range over a map with these keys can take
Orders(keys) ==
    {p \in [1..Cardinality(keys) -> keys] : \A j, k \in DOMAIN p : j # k => p[j] # p[k]}

genGet(m) ==
    concat(<<
      line(<<"id := req.Msg.Get">> \o m.Config.IDGoName \o <<"()">>),
      line(<<"if id == \"\" {">>),
      line(<<"\t", "return nil, connect.NewError(connect.CodeInvalidArgument, errors.New(\"id is required\"))">>),
      line(<<"}">>),
      blank,
      line(<<"entity, err := s.">> \o lowerFirst(m.Entity) \o <<"Repo.Get(ctx, id)">>),
      line(<<"if err != nil {">>),
      line(<<"\t", "if errors.Is(err, ErrNotFound) {">>),
      line(<<"\t", "\t", "return nil, connect.NewError(connect.CodeNotFound, err)">>),
      line(<<"\t", "}">>),
      line(<<"\t", "return nil, connect.NewError(connect.CodeInternal, err)">>),
      line(<<"}">>),
      blank,
      line(<<"return connect.NewResponse(entity), nil">>)
    >>)

\* listField := m.Entity + "s", or the GoName of the first repeated message
\* field of the output message
serverListField(m) ==
    IF m.OutputMsg.found /\ firstListField(m.OutputMsg.fields) # <<>>
    THEN firstListField(m.OutputMsg.fields)
    ELSE m.Entity \o <<"s">>

genList(m) ==
    concat(<<
      line(<<"limit := int(req.Msg.GetLimit())">>),
      line(<<"if limit <= 0 || limit > 100 {">>),
      line(<<"\t", "limit = 100">>),
      line(<<"}">>),
      blank,
      line(<<"entities, err := s.">> \o lowerFirst(m.Entity) \o <<"Repo.List(ctx, limit)">>),
      line(<<"if err != nil {">>),
      line(<<"\t", "return nil, connect.NewError(connect.CodeInternal, err)">>),
      line(<<"}">>),
      blank,
      line(<<"return connect.NewResponse(&">> \o m.OutputType \o <<"{">> \o serverListField(m) \o <<": entities}), nil">>)
    >>)

genDelete(m) ==
    concat(<<
      line(<<"id := req.Msg.Get">> \o m.Config.IDGoName \o <<"()">>),
      line(<<"if id == \"\" {">>),
      line(<<"\t", "return nil, connect.NewError(connect.CodeInvalidArgument, errors.New(\"id is required\"))">>),
      line(<<"}">>),
      blank,
      line(<<"if err := s.">> \o lowerFirst(m.Entity) \o <<"Repo.Delete(ctx, id); err != nil {">>),
      line(<<"\t", "if errors.Is(err, ErrNotFound) {">>),
      line(<<"\t", "\t", "return nil, connect.NewError(connect.CodeNotFound, err)">>),
      line(<<"\t", "}">>),
      line(<<"\t", "return nil, connect.NewError(connect.CodeInternal, err)">>),
      line(<<"}">>),
      blank,
      line(<<"return connect.NewResponse(&emptypb.Empty{}), nil">>)
    >>)

serverBody(m) ==
    CASE m.Op = "get"    -> genGet(m)
      [] m.Op = "list"   -> genList(m)
      [] m.Op = "delete" -> genDelete(m)
      [] OTHER           -> empty

genMethod(svcName, m) ==
    concat(<<
      blank,
      line(<<"func (">> \o (<<"s *">> \o svcName \o <<"Server">>) \o <<") ">> \o m.GoName \o <<"(">> \o (<<"ctx context.Context, req *connect.Request[">> \o m.InputType \o <<"]">>) \o <<") ">> \o (<<"(*connect.Response[">> \o m.OutputType \o <<"], error)">>) \o <<" {">>),
      indent(serverBody(m)),
      line(<<"}">>)
    >>)

\* entities[m.Entity] = true for each method
serverServiceEntities(methods) == {methods[k].Entity : k \in 1..Len(methods)}

\* for e := range entities: fields = append2(fields, linef(...))
RECURSIVE serverFields(_, _)
serverFields(order, fields) ==
    IF order = <<>> THEN fields
    ELSE serverFields(Tail(order),
             append2(fields, line(lowerFirst(Head(order)) \o <<"Repo *Firestore">>
                                  \o Head(order) \o <<"Repository">>)))

\* for e := range entities: params = append(params, fmt.Sprintf(...))
serverParams(order) ==
    [k \in 1..Len(order) |->
        lowerFirst(order[k]) \o <<"Repo *Firestore">> \o order[k] \o <<"Repository">>]

\* ... and assigns = append2(assigns, linef(...))
RECURSIVE serverAssigns(_, _)
serverAssigns(order, assigns) ==
    IF order = <<>> THEN assigns
    ELSE serverAssigns(Tail(order),
             append2(assigns, line(<<"\t">> \o lowerFirst(Head(order)) \o <<"Repo: ">>
                                   \o lowerFirst(Head(order)) \o <<"Repo,">>)))

RECURSIVE serverMethods(_, _, _)
serverMethods(svcName, ms, methodsCode) ==
    IF ms = <<>> THEN methodsCode
    ELSE serverMethods(svcName, Tail(ms), append2(methodsCode, genMethod(svcName, Head(ms))))

genService(svcName, methods, fieldOrder, paramOrder) ==
    concat(<<
      blank,
      line(<<"type ">> \o svcName \o <<"Server struct {">>),
      indent(serverFields(fieldOrder, empty)),
      line(<<"}">>),
      blank,
      line(<<"func New">> \o svcName \o <<"Server(">> \o Join(serverParams(paramOrder), <<", ">>) \o <<") *">> \o svcName \o <<"Server {">>),
      line(<<"\t", "return &">> \o svcName \o <<"Server{">>),
      serverAssigns(paramOrder, empty),
      line(<<"\t", "}">>),
      line(<<"}">>),
      serverMethods(svcName, methods, empty)
    >>)

\* for svcName, methods := range services: svcCode = append2(svcCode, genService(...))
\* ord[svcName] holds the two orders genService's own ranges take
RECURSIVE serverServices(_, _, _, _)
serverServices(services, svcOrder, ord, svcCode) ==
    IF svcOrder = <<>> THEN svcCode
    ELSE LET svcName == Head(svcOrder)
         IN  serverServices(services, Tail(svcOrder), ord,
                 append2(svcCode, genService(svcName, services[svcName],
                                             ord[svcName].fields, ord[svcName].params)))

genFile(services, svcOrder, ord) ==
    concat(<<
      line(<<"// Code generated by protoc-gen-connect-server. DO NOT EDIT.">>),
      blank,
      line(<<"package ">> \o GoPackageName),
      blank,
      line(<<"import (">>),
      line(<<"\t", "\"context\"">>),
      line(<<"\t", "\"errors\"">>),
      blank,
      line(<<"\t", "\"connectrpc.com/connect\"">>),
      line(<<"\t", "\"google.golang.org/protobuf/types/known/emptypb\"">>),
      line(<<")">>),
      serverServices(services, svcOrder, ord, empty)
    >>)

\* the orders the ranges of one run of genFile can take
serverOrders(services) ==
    {o \in [DOMAIN services ->
              [fields : UNION {Orders(serverServiceEntities(services[s])) : s \in DOMAIN services},
               params : UNION {Orders(serverServiceEntities(services[s])) : s \in DOMAIN services}]] :
        \A s \in DOMAIN services :
            /\ o[s].fields \in Orders(serverServiceEntities(services[s]))
            /\ o[s].params \in Orders(serverServiceEntities(services[s]))}

-----------------------------------------------------------------------------
(* protoc-gen-connect-server, the generator built on the monoid: the       *)
(* struct and the constructor of a service.                                *)

\* CodeMonoid.Empty()
CodeEmpty == <<>>


\* Append that sets a newline between the two when the first is not empty
CodeAppendJoined(a, b) == IF a = <<>> THEN b ELSE a \o <<"\n">> \o b

\* CodeMonoid.Append(a, b)
CodeAppend(a, b) == a \o b

\* Concat(CodeMonoid, xs): FoldRight(xs, Empty(), Append)
RECURSIVE Concat(_)
Concat(xs) == IF xs = <<>> THEN CodeEmpty ELSE CodeAppend(Head(xs), Concat(Tail(xs)))

Line(s) == s \o <<"\n">>

\* Lit(s): Code{Run: func() string { return s }}
Lit(s) == s

Blank == Line(<<>>)

Comment(text) == Line(<<"// ">> \o text)

\* Indent that puts the tab before the empty lines too
IndentEveryLine(c) ==
    LET lines == SplitLines(c, <<>>)
    IN  Join([k \in 1..Len(lines) |-> <<"\t">> \o lines[k]], <<"\n">>)

\* Indent(c): Map over the lines, a tab before each that is not empty
Indent(c) ==
    LET lines == SplitLines(c, <<>>)
    IN  Join([k \in 1..Len(lines) |-> IF lines[k] = <<>> THEN <<>> ELSE <<"\t">> \o lines[k]],
             <<"\n">>)

Struct(name, fields) ==
    Concat(<<Line(<<"type ">> \o name \o <<" struct {">>), Indent(fields), Line(<<"}">>)>>)

Func(name, params, returns, body) ==
    LET sig == <<"func ">> \o name \o <<"(">> \o params \o <<")">>
                 \o (IF returns # <<>> THEN <<" ">> \o returns ELSE <<>>)
    IN  Concat(<<Line(sig \o <<" {">>), Indent(body), Line(<<"}">>)>>)

\* entities[m.EntityName] = true for each method with a name of an entity
monoidServiceEntities(s) ==
    {s.Methods[k].EntityName : k \in 1..Len(s.Methods)} \ {<<>>}

RECURSIVE monoidRepoFields(_, _)
monoidRepoFields(order, repoFields) ==
    IF order = <<>> THEN repoFields
    ELSE monoidRepoFields(Tail(order),
             CodeAppend(repoFields, Line(lowerFirst(Head(order)) \o <<"Repo ">>
                                         \o Head(order) \o <<"Repository">>)))

ServiceStruct(s, order) ==
    Concat(<<
      Blank,
      Comment(s.GoName \o <<"Server implements the ">> \o s.GoName \o <<" Connect service">>),
      Struct(s.GoName \o <<"Server">>, monoidRepoFields(order, Concat(<<>>)))
    >>)

monoidParams(order) ==
    [k \in 1..Len(order) |-> lowerFirst(order[k]) \o <<"Repo ">> \o order[k] \o <<"Repository">>]

monoidAssigns(order) ==
    [k \in 1..Len(order) |->
        Line(lowerFirst(order[k]) \o <<"Repo: ">> \o lowerFirst(order[k]) \o <<"Repo,">>)]

ServiceConstructor(s, order) ==
    Concat(<<
      Blank,
      Comment(<<"New">> \o s.GoName \o <<"Server creates a new Connect service server">>),
      Func(<<"New">> \o s.GoName \o <<"Server">>, Join(monoidParams(order), <<", ">>),
           <<"*">> \o s.GoName \o <<"Server">>,
           Concat(<<Line(<<"return &">> \o s.GoName \o <<"Server{">>)>>
                  \o monoidAssigns(order) \o <<Line(<<"}">>)>>))
    >>)

\* GenerateService, its first two parts
RECURSIVE monoidServices(_, _)
monoidServices(services, ord) ==
    IF services = <<>> THEN CodeEmpty
    ELSE CodeAppend(
           Concat(<<ServiceStruct(Head(services), Head(ord).fields),
                    ServiceConstructor(Head(services), Head(ord).params)>>),
           monoidServices(Tail(services), Tail(ord)))

\* the orders the ranges of the services' structs and constructors can take
monoidOrders(services) ==
    {o \in [1..Len(services) ->
              [fields : UNION {Orders(monoidServiceEntities(services[k])) : k \in 1..Len(services)},
               params : UNION {Orders(monoidServiceEntities(services[k])) : k \in 1..Len(services)}]] :
        \A k \in 1..Len(services) :
            /\ o[k].fields \in Orders(monoidServiceEntities(services[k]))
            /\ o[k].params \in Orders(monoidServiceEntities(services[k]))}

-----------------------------------------------------------------------------
(* Code values.  A Code is a struct with one field, Run, a closure; the    *)
(* value is modelled by the closure: which function literal it is and the  *)
(* values that literal captured.  Building one runs nothing.  Running one  *)
(* gives the string and the closure as the run left it, so that a closure  *)
(* that wrote to what it captured would show.  The families are the        *)
(* lower-case helpers (empty, append2, concat, line, indent) and the       *)
(* CodeMonoid ones (Empty, Append, Concat, Line, Indent, When).            *)

\* var empty = Code{Run: func() string { return "" }}
emptyThunk == <<"empty">>

\* append2(a, b): Code{Run: func() string { return a.Run() + b.Run() }}
append2Thunk(a, b) == <<"append2", a, b>>

\* concat(codes...): result := empty; result = append2(result, c) for each
RECURSIVE concatThunkInto(_, _)
concatThunkInto(result, codes) ==
    IF codes = <<>> THEN result
    ELSE concatThunkInto(append2Thunk(result, Head(codes)), Tail(codes))

\* concat that takes the codes last to first
concatThunkBackwards(codes) ==
    concatThunkInto(emptyThunk, [k \in 1..Len(codes) |-> codes[Len(codes) + 1 - k]])

concatThunk(codes) == concatThunkInto(emptyThunk, codes)

\* line(s): Code{Run: func() string { return s + "\n" }}
lineThunk(s) == <<"line", s>>

blankThunk == lineThunk(<<>>)

\* indent(c): Code{Run: func() string { ... c.Run() ... }}
indentThunk(c) == <<"indent", c>>

\* CodeMonoid.Empty()
EmptyThunk == <<"Empty">>

\* CodeMonoid.Append(a, b)
AppendThunk(a, b) == <<"Append", a, b>>

\* the function literals handed to FoldRight by Concat, Map and Filter,
\* applied to an element and the fold of the rest
FoldStep(f, a, acc) ==
    CASE f.op = "Concat" -> AppendThunk(a, acc)
      [] f.op = "Map"    -> <<f.f[a]>> \o acc
      [] f.op = "Filter" -> IF f.pred[a] THEN <<a>> \o acc ELSE acc

\* FoldRight(xs, z, f): z for no element, else f(xs[0], FoldRight(xs[1:], z, f))
RECURSIVE FoldRight(_, _, _)
FoldRight(xs, z, f) ==
    IF Len(xs) = 0 THEN z
    ELSE FoldStep(f, xs[1], FoldRight(Tail(xs), z, f))

\* Concat(CodeMonoid, xs)
ConcatThunk(xs) == FoldRight(xs, EmptyThunk, [op |-> "Concat"])

\* Map with the new element put last, not first
MapAppending(xs, f) ==
    IF Len(xs) = 0 THEN <<>>
    ELSE [k \in 1..Len(xs) |-> f[xs[Len(xs) + 1 - k]]]

\* Map(xs, f); f is a function of the elements
Map(xs, f) == FoldRight(xs, <<>>, [op |-> "Map", f |-> f])

\* FoldMap(xs, CodeMonoid, f)
FoldMap(xs, f) == ConcatThunk(Map(xs, f))

\* Filter(xs, pred); pred is a function of the elements to BOOLEAN
Filter(xs, pred) == FoldRight(xs, <<>>, [op |-> "Filter", pred |-> pred])

\* When that gives c whatever cond is
WhenAlways(cond, c) == c

\* When(cond, c)
WhenThunk(cond, c) == IF cond THEN c ELSE EmptyThunk

\* Line(s)
LineThunk(s) == <<"Line", s>>

\* Lit(s)
LitThunk(s) == <<"Lit", s>>

BlankThunk == LineThunk(<<>>)

\* Indent(c)
IndentThunk(c) == <<"Indent", c>>

\* Struct(name, fields): Concat of the opening line, Indent(fields) and the
\* closing line
StructThunk(name, fields) ==
    ConcatThunk(<<LineThunk(<<"type ">> \o name \o <<" struct {">>),
                  IndentThunk(fields), LineThunk(<<"}">>)>>)

\* indent's Run with result declared beside the closure, not inside it: the
\* lines of every run so far stay in it
runIndentKept(c, rc) ==
    LET kept   == IF Len(c) > 2 THEN c[3] ELSE <<>>
        ls     == SplitLines(rc.text, <<>>)
        result == kept \o [k \in 1..Len(ls) |->
                              IF ls[k] = <<>> THEN <<>> ELSE <<"\t">> \o ls[k]]
    IN  [text |-> Join(result, <<"\n">>), self |-> <<c[1], rc.self, result>>]

\* the Run of indent(c) and of Indent(c), rc being what c.Run() gave:
\* result and lines are variables of the run, the closure captured c only
runIndent(c, rc) ==
    [text |-> IF c[1] = "indent" THEN indent(rc.text) ELSE Indent(rc.text),
     self |-> <<c[1], rc.self>>]

\* c.Run(): the string, and the closure after the run
RECURSIVE Run(_)
Run(c) ==
    CASE c[1] = "empty"   -> [text |-> empty, self |-> c]
      [] c[1] = "Empty"   -> [text |-> CodeEmpty, self |-> c]
      [] c[1] = "line"    -> [text |-> line(c[2]), self |-> c]
      [] c[1] = "Line"    -> [text |-> Line(c[2]), self |-> c]
      [] c[1] = "Lit"     -> [text |-> Lit(c[2]), self |-> c]
      [] c[1] = "append2" -> [text |-> append2(Run(c[2]).text, Run(c[3]).text),
                              self |-> <<c[1], Run(c[2]).self, Run(c[3]).self>>]
      [] c[1] = "Append"  -> [text |-> CodeAppend(Run(c[2]).text, Run(c[3]).text),
                              self |-> <<c[1], Run(c[2]).self, Run(c[3]).self>>]
      [] OTHER            -> runIndent(c, Run(c[2]))

-----------------------------------------------------------------------------
(* Fragments built from one another and rendered, in any order.            *)

FragFams == {"connect-server", "connect-server-monoid"}

MaxFrags == 2

\* the fragments a run starts from: nothing, one line, and two lines with a
\* blank one between them
Samples(fam) ==
    IF fam = "connect-server"
    THEN {emptyThunk, lineThunk(<<"a">>),
          concatThunk(<<lineThunk(<<"a">>), blankThunk, lineThunk(<<"b">>)>>)}
    ELSE {EmptyThunk, LineThunk(<<"a">>),
          ConcatThunk(<<LineThunk(<<"a">>), BlankThunk, LineThunk(<<"b">>)>>)}

NotRun == [n |-> 0, first |-> <<>>, last |-> <<>>, used |-> FALSE, again |-> FALSE]

InitFrag ==
    /\ fFam \in FragFams
    /\ fFrags \in {<<c>> : c \in Samples(fFam)}
    /\ fHow = <<[op |-> "sample", args |-> <<>>, cond |-> FALSE]>>
    /\ fRuns = <<NotRun>>

\* a constructor returned c: the value is new, its operands are as they
\* were, and none of them was run
FragBuilt(c, op, args, cond) ==
    /\ Len(fFrags) < MaxFrags
    /\ fFrags' = Append(fFrags, c)
    /\ fHow' = Append(fHow, [op |-> op, args |-> args, cond |-> cond])
    /\ fRuns' = Append([k \in 1..Len(fRuns) |->
                           IF fRuns[k].n > 0 /\ \E h \in 1..Len(args) : args[h] = k
                           THEN [fRuns[k] EXCEPT !.used = TRUE]
                           ELSE fRuns[k]],
                       NotRun)
    /\ UNCHANGED fFam
    /\ UNCHANGED <<tagVars, extVars, optVars, idVars, genVars, foldVars, runVars, memVars>>

\* append2(a, b), CodeMonoid.Append(a, b)
BuildAppend ==
    \E i, j \in 1..Len(fFrags) :
        FragBuilt(IF fFam = "connect-server" THEN append2Thunk(fFrags[i], fFrags[j])
                  ELSE AppendThunk(fFrags[i], fFrags[j]),
                  "append", <<i, j>>, FALSE)

\* concat(codes...), Concat(CodeMonoid, codes), of the fragments there are
BuildConcat ==
    FragBuilt(IF fFam = "connect-server" THEN concatThunk(fFrags) ELSE ConcatThunk(fFrags),
              "concat", [k \in 1..Len(fFrags) |-> k], FALSE)

\* indent(c), Indent(c)
\* the fragments of the in-memory generator a run starts from: nothing, two
\* literals that end in no newline, one line, and a struct of two fields
\* with a blank line between them
LitSamples ==
    {EmptyThunk, LitThunk(<<"a">>), LitThunk(<<"a", "\n", "b">>), LineThunk(<<"a">>),
     StructThunk(<<"T">>,
                 ConcatThunk(<<LineThunk(<<"a">>), BlankThunk, LineThunk(<<"b">>)>>))}

InitLit ==
    /\ fFam = "inmemory"
    /\ fFrags \in {<<c>> : c \in LitSamples}
    /\ fHow = <<[op |-> "sample", args |-> <<>>, cond |-> FALSE]>>
    /\ fRuns = <<NotRun>>

BuildIndent ==
    \E i \in 1..Len(fFrags) :
        FragBuilt(IF fFam = "connect-server" THEN indentThunk(fFrags[i])
                  ELSE IndentThunk(fFrags[i]),
                  "indent", <<i>>, FALSE)

\* When(cond, c)
BuildWhen ==
    /\ fFam = "connect-server-monoid"
    /\ \E cond \in BOOLEAN, i \in 1..Len(fFrags) :
          FragBuilt(WhenThunk(cond, fFrags[i]), "When", <<i>>, cond)

\* c.Run() of one of the fragments
Render ==
    \E i \in 1..Len(fFrags) :
        /\ fFrags' = [fFrags EXCEPT ![i] = Run(fFrags[i]).self]
        /\ fRuns' = [fRuns EXCEPT ![i] =
                        IF fRuns[i].n = 0
                        THEN [n |-> 1, first |-> Run(fFrags[i]).text,
                              last |-> Run(fFrags[i]).text, used |-> FALSE, again |-> FALSE]
                        ELSE [fRuns[i] EXCEPT !.last = Run(fFrags[i]).text,
                                              !.again = fRuns[i].used]]
        /\ UNCHANGED <<fFam, fHow>>
        /\ UNCHANGED <<tagVars, extVars, optVars, idVars, genVars, foldVars, runVars, memVars>>


-----------------------------------------------------------------------------
(* The list functions applied to a list, each once.                        *)

FoldItems == {"x", "y"}

MapValues == {"p", "q"}

FoldCodes == {EmptyThunk, LineThunk(<<"a">>), LineThunk(<<"b">>)}

MaxFold == 3

ListFns == {"Map", "Filter", "FoldMap", "Concat"}

InitFold ==
    /\ hXs \in SeqsUpTo(FoldItems, MaxFold)
    /\ hF \in [FoldItems -> MapValues]
    /\ hPred \in [FoldItems -> BOOLEAN]
    /\ hCode \in [FoldItems -> FoldCodes]
    /\ hRes = [fn \in ListFns |-> Unset]

\* Map(xs, f)
ApplyMap ==
    /\ ~hRes["Map"].set
    /\ hRes' = [hRes EXCEPT !["Map"] = [set |-> TRUE, val |-> Map(hXs, hF)]]
    /\ UNCHANGED <<hXs, hF, hPred, hCode>>
    /\ UNCHANGED <<tagVars, extVars, optVars, idVars, genVars, fragVars, runVars, memVars>>

\* Filter(xs, pred)
ApplyFilter ==
    /\ ~hRes["Filter"].set
    /\ hRes' = [hRes EXCEPT !["Filter"] = [set |-> TRUE, val |-> Filter(hXs, hPred)]]
    /\ UNCHANGED <<hXs, hF, hPred, hCode>>
    /\ UNCHANGED <<tagVars, extVars, optVars, idVars, genVars, fragVars, runVars, memVars>>

\* FoldMap(xs, CodeMonoid, f)
ApplyFoldMap ==
    /\ ~hRes["FoldMap"].set
    /\ hRes' = [hRes EXCEPT !["FoldMap"] = [set |-> TRUE, val |-> FoldMap(hXs, hCode)]]
    /\ UNCHANGED <<hXs, hF, hPred, hCode>>
    /\ UNCHANGED <<tagVars, extVars, optVars, idVars, genVars, fragVars, runVars, memVars>>

\* Concat(CodeMonoid, codes), codes being the Code of each item of xs
ApplyConcat ==
    /\ ~hRes["Concat"].set
    /\ hRes' = [hRes EXCEPT !["Concat"] =
                   [set |-> TRUE, val |-> ConcatThunk([k \in 1..Len(hXs) |-> hCode[hXs[k]]])]]
    /\ UNCHANGED <<hXs, hF, hPred, hCode>>
    /\ UNCHANGED <<tagVars, extVars, optVars, idVars, genVars, fragVars, runVars, memVars>>

\* the Code values the two ways of concatenating are handed: the empty one
\* of either program, lines, a blank line, a literal that ends in no
\* newline, and indented lines
ConcatCodes ==
    {emptyThunk, EmptyThunk, lineThunk(<<"a">>), LineThunk(<<"b">>), BlankThunk,
     LitThunk(<<"c">>),
     indentThunk(append2Thunk(lineThunk(<<"a">>), lineThunk(<<"b">>)))}

ConcatFns == {"concat", "Concat"}

\* the codes handed to concat and to Concat: the same slice for both
InitConcat ==
    /\ hXs \in SeqsUpTo(FoldItems, MaxFold)
    /\ hF = <<>>
    /\ hPred = <<>>
    /\ hCode \in [FoldItems -> ConcatCodes]
    /\ hRes = [fn \in ConcatFns |-> Unset]

\* concat(codes...), codes being the Code of each item of xs
ApplyConcatLeft ==
    /\ "concat" \in DOMAIN hRes
    /\ ~hRes["concat"].set
    /\ hRes' = [hRes EXCEPT !["concat"] =
                   [set |-> TRUE, val |-> concatThunk([k \in 1..Len(hXs) |-> hCode[hXs[k]]])]]
    /\ UNCHANGED <<hXs, hF, hPred, hCode>>
    /\ UNCHANGED <<tagVars, extVars, optVars, idVars, genVars, fragVars, runVars, memVars>>

-----------------------------------------------------------------------------
(* The plug-ins run on a schema file, twice over.                          *)

Plugins == {"service-stubs", "connect-server", "connect-server-monoid"}

NoOutput == [written |-> FALSE, text |-> <<>>]

Written(text) == [written |-> TRUE, text |-> text]

InitGen ==
    /\ gPlugin \in Plugins
    /\ gFile \in Files
    /\ gRun = 1
    /\ gPc = "start"
    /\ gEntities = EmptyMap
    /\ gServices = <<>>
    /\ gNext = 1
    /\ gOut = NoOutput
    /\ gOut1 = NoOutput

\* service-stubs main: if len(f.Services) == 0 { continue }, "Build entity map"
StubEntities ==
    /\ gPlugin = "service-stubs"
    /\ gPc = "start"
    /\ IF Len(gFile.services) = 0
       THEN gPc' = "done" /\ UNCHANGED gEntities
       ELSE gPc' = "services" /\ gEntities' = stubEntities(gFile.messages, EmptyMap)
    /\ UNCHANGED <<gPlugin, gFile, gRun, gServices, gNext, gOut, gOut1>>
    /\ UNCHANGED <<tagVars, extVars, optVars, idVars, fragVars, foldVars, runVars, memVars>>

\* service-stubs main: "Build service info", one service
StubAnalyze ==
    /\ gPlugin = "service-stubs"
    /\ gPc = "services"
    /\ gServices' = Append(gServices, stubService(gFile.services[gNext], gEntities, gFile.messages))
    /\ gNext' = gNext + 1
    /\ gPc' = IF gNext = Len(gFile.services) THEN "generate" ELSE "services"
    /\ UNCHANGED <<gPlugin, gFile, gRun, gEntities, gOut, gOut1>>
    /\ UNCHANGED <<tagVars, extVars, optVars, idVars, fragVars, foldVars, runVars, memVars>>

\* service-stubs main: g.P(generateFile(...).Run())
StubGenerate ==
    /\ gPlugin = "service-stubs"
    /\ gPc = "generate"
    /\ gOut' = Written(generateFile(gServices, GoPackageName,
                          GoImportPath \o <<"/">> \o ToLower(GoPackageName) \o <<"c", "o", "n", "n", "e", "c", "t">>))
    /\ gPc' = "done"
    /\ UNCHANGED <<gPlugin, gFile, gRun, gEntities, gServices, gNext, gOut1>>
    /\ UNCHANGED <<tagVars, extVars, optVars, idVars, fragVars, foldVars, runVars, memVars>>

\* connect-server main: "Get entities", if len(entities) == 0 { continue }
ServerEntities ==
    /\ gPlugin = "connect-server"
    /\ gPc = "start"
    /\ gEntities' = serverEntities(gFile.messages, EmptyMap)
    /\ gServices' = EmptyMap
    /\ gPc' = IF DOMAIN gEntities' = {} THEN "done"
              ELSE IF Len(gFile.services) = 0 THEN "generate"
              ELSE "services"
    /\ UNCHANGED <<gPlugin, gFile, gRun, gNext, gOut, gOut1>>
    /\ UNCHANGED <<tagVars, extVars, optVars, idVars, fragVars, foldVars, runVars, memVars>>

\* connect-server main: "Get service methods", one service
ServerExtract ==
    /\ gPlugin = "connect-server"
    /\ gPc = "services"
    /\ LET svc     == gFile.services[gNext]
           methods == extractMethods(svc.methods, gEntities, gFile.messages)
       IN  gServices' = IF Len(methods) > 0
                        THEN [k \in DOMAIN gServices \cup {svc.GoName} |->
                                 IF k = svc.GoName THEN methods ELSE gServices[k]]
                        ELSE gServices
    /\ gNext' = gNext + 1
    /\ gPc' = IF gNext = Len(gFile.services) THEN "generate" ELSE "services"
    /\ UNCHANGED <<gPlugin, gFile, gRun, gEntities, gOut, gOut1>>
    /\ UNCHANGED <<tagVars, extVars, optVars, idVars, fragVars, foldVars, runVars, memVars>>

\* connect-server main: if len(services) == 0 { continue }, g.P(genFile(...).Run())
ServerGenerate ==
    /\ gPlugin = "connect-server"
    /\ gPc = "generate"
    /\ IF DOMAIN gServices = {}
       THEN UNCHANGED gOut
       ELSE \E svcOrder \in Orders(DOMAIN gServices), ord \in serverOrders(gServices) :
               gOut' = Written(genFile(gServices, svcOrder, ord))
    /\ gPc' = "done"
    /\ UNCHANGED <<gPlugin, gFile, gRun, gEntities, gServices, gNext, gOut1>>
    /\ UNCHANGED <<tagVars, extVars, optVars, idVars, fragVars, foldVars, runVars, memVars>>

\* the monoid generator's main: if len(f.Services) == 0 { continue }
MonoidStart ==
    /\ gPlugin = "connect-server-monoid"
    /\ gPc = "start"
    /\ gPc' = IF Len(gFile.services) = 0 THEN "done" ELSE "services"
    /\ UNCHANGED <<gPlugin, gFile, gRun, gEntities, gServices, gNext, gOut, gOut1>>
    /\ UNCHANGED <<tagVars, extVars, optVars, idVars, fragVars, foldVars, runVars, memVars>>

\* GenerateFile: services := Map(file.Services, ExtractServiceInfo), one service
MonoidExtract ==
    /\ gPlugin = "connect-server-monoid"
    /\ gPc = "services"
    /\ gServices' = Append(gServices, ExtractServiceInfo(gFile.services[gNext]))
    /\ gNext' = gNext + 1
    /\ gPc' = IF gNext = Len(gFile.services) THEN "generate" ELSE "services"
    /\ UNCHANGED <<gPlugin, gFile, gRun, gEntities, gOut, gOut1>>
    /\ UNCHANGED <<tagVars, extVars, optVars, idVars, fragVars, foldVars, runVars, memVars>>

\* GenerateService for each service: ServiceStruct and ServiceConstructor
MonoidGenerate ==
    /\ gPlugin = "connect-server-monoid"
    /\ gPc = "generate"
    /\ \E ord \in monoidOrders(gServices) :
          gOut' = Written(monoidServices(gServices, ord))
    /\ gPc' = "done"
    /\ UNCHANGED <<gPlugin, gFile, gRun, gEntities, gServices, gNext, gOut1>>
    /\ UNCHANGED <<tagVars, extVars, optVars, idVars, fragVars, foldVars, runVars, memVars>>

\* the plug-in is run once more on the same file
Rerun ==
    /\ gPc = "done"
    /\ gRun = 1
    /\ gRun' = 2
    /\ gOut1' = gOut
    /\ gPc' = "start"
    /\ gEntities' = EmptyMap
    /\ gServices' = <<>>
    /\ gNext' = 1
    /\ gOut' = NoOutput
    /\ UNCHANGED <<gPlugin, gFile>>
    /\ UNCHANGED <<tagVars, extVars, optVars, idVars, fragVars, foldVars, runVars, memVars>>


\* service-stubs run once on a file of StubFiles
InitStub ==
    /\ gPlugin = "service-stubs"
    /\ gFile \in StubFiles
    /\ gRun = 1
    /\ gPc = "start"
    /\ gEntities = EmptyMap
    /\ gServices = <<>>
    /\ gNext = 1
    /\ gOut = NoOutput
    /\ gOut1 = NoOutput


-----------------------------------------------------------------------------
(* A plug-in run over several schema files, one after the other: the loop  *)
(* of main over gen.Files, of the files that are to be generated.  The     *)
(* firestore plug-ins go through a file in one step; service-stubs and     *)
(* connect-server go through it as above.                                  *)

RunPlugins == {"service-stubs", "connect-server", "firestore", "firestore-functional"}

\* one service, with a method of each of the two entities
RunServices ==
    ServicesOf(<<[name |-> <<"G", "e", "t", "U", "s", "e", "r">>, input |-> nIdRequest, output |-> nUser],
                 [name |-> <<"D", "e", "l", "e", "t", "e", "O", "r", "d", "e", "r">>, input |-> nIdRequest, output |-> nEmpty]>>, 2)

\* the messages of a file where User is the one entity
UserOnlyMessages ==
    << Msg(nUser, EntityOpts, <<Fld(<<"i", "d">>, "string"), Fld(<<"n", "a", "m", "e">>, "string")>>),
       Msg(nOrder, PlainOpts, <<Fld(<<"t", "_", "i", "d">>, "string"), Fld(<<"i", "d">>, "string")>>),
       Msg(nIdRequest, <<>>, <<Fld(<<"i", "d">>, "string")>>) >>

\* the messages of a file with no entity
NoEntityMessages ==
    << Msg(nItem, PlainOpts, <<Fld(<<"i", "d">>, "string")>>),
       Msg(nIdRequest, <<>>, <<Fld(<<"i", "d">>, "string")>>) >>

\* the files of a run: two of the same content under two names, one where
\* Order is no entity, one with no entity, one with nothing in it
RunFilePool ==
    { [name |-> <<"a">>, messages |-> FileMessages, services |-> RunServices],
      [name |-> <<"b">>, messages |-> FileMessages, services |-> RunServices],
      [name |-> <<"c">>, messages |-> UserOnlyMessages, services |-> RunServices],
      [name |-> <<"d">>, messages |-> NoEntityMessages, services |-> RunServices],
      [name |-> <<"e">>, messages |-> <<>>, services |-> <<>>] }

MaxFiles == 2

\* gen.Files: files of different names
RunFileSeqs ==
    {fs \in SeqsUpTo(RunFilePool, MaxFiles) :
        /\ Len(fs) > 0
        /\ \A j, k \in 1..Len(fs) : j # k => fs[j].name # fs[k].name}

InitRun ==
    /\ gPlugin \in RunPlugins
    /\ rFiles \in RunFileSeqs
    /\ rAt = 1
    /\ rErrorsGenerated = FALSE
    /\ rEmitted = <<>>
    /\ gFile = rFiles[1]
    /\ gRun = 1
    /\ gPc = IF gPlugin \in {"service-stubs", "connect-server"} THEN "start" ELSE "files"
    /\ gEntities = EmptyMap
    /\ gServices = <<>>
    /\ gNext = 1
    /\ gOut = NoOutput
    /\ gOut1 = NoOutput

\* gen.NewGeneratedFile(f.GeneratedFilenamePrefix + suffix, ...) with P(text)
Generated(f, suffix, text) == [name |-> f.name \o <<suffix>>, suffix |-> suffix, text |-> text]

\* service-stubs and connect-server: the end of the loop body, and the next
\* file; services is a variable of the loop body
NextFile ==
    /\ gPlugin \in {"service-stubs", "connect-server"}
    /\ gPc = "done"
    /\ rAt <= Len(rFiles)
    /\ rEmitted' = Append(rEmitted,
                      IF gOut.written
                      THEN {Generated(gFile,
                                      IF gPlugin = "service-stubs" THEN "_services.pb.go"
                                      ELSE "_connect_server.pb.go",
                                      gOut.text)}
                      ELSE {})
    /\ rAt' = rAt + 1
    /\ IF rAt < Len(rFiles)
       THEN /\ gFile' = rFiles[rAt + 1]
            /\ gPc' = "start"
            /\ gServices' = <<>>
            /\ gNext' = 1
            /\ gOut' = NoOutput
       ELSE UNCHANGED <<gFile, gPc, gServices, gNext, gOut>>
    /\ UNCHANGED <<gPlugin, gRun, gEntities, gOut1, rFiles, rErrorsGenerated>>
    /\ UNCHANGED <<tagVars, extVars, optVars, idVars, fragVars, foldVars, memVars>>

\* firestore: the messages getEntityConfig gives a config for
RECURSIVE entityMessages(_)
entityMessages(msgs) ==
    IF msgs = <<>> THEN <<>>
    ELSE IF hasExtension(Head(msgs).opts, entityExtensionNumber)
    THEN <<Head(msgs)>> \o entityMessages(Tail(msgs))
    ELSE entityMessages(Tail(msgs))

\* firestore-functional: a message of the file has a field named id
hasEntities(msgs) ==
    \E k \in 1..Len(msgs) : \E h \in 1..Len(msgs[k].fields) : isIdName(msgs[k].fields[h].name)

\* the text of the errors file and of the firestore file, by what they are
\* made from: the package, and the entities of the file
GenerateErrorsFile(pkgName) == <<"GenerateErrorsFile", pkgName>>

GenerateFirestoreFile(f, entities) ==
    <<"GenerateFile", f.messages, [k \in 1..Len(entities) |-> entities[k].GoName]>>

\* the loop body of the two firestore mains, has being whether the file has
\* what makes them generate
FirestoreBody(f, has, entities) ==
    /\ rAt <= Len(rFiles)
    /\ IF Len(f.messages) = 0 \/ ~has
       THEN /\ rEmitted' = Append(rEmitted, {})
            /\ UNCHANGED rErrorsGenerated
       ELSE /\ rEmitted' = Append(rEmitted,
                   (IF ~rErrorsGenerated
                    THEN {Generated(f, "_errors.pb.go", GenerateErrorsFile(GoPackageName))}
                    ELSE {})
                   \cup {Generated(f, "_firestore.pb.go", GenerateFirestoreFile(f, entities))})
            /\ rErrorsGenerated' = TRUE
    /\ rAt' = rAt + 1
    /\ gFile' = IF rAt < Len(rFiles) THEN rFiles[rAt + 1] ELSE gFile
    /\ UNCHANGED <<gPlugin, gRun, gPc, gEntities, gServices, gNext, gOut, gOut1, rFiles>>
    /\ UNCHANGED <<tagVars, extVars, optVars, idVars, fragVars, foldVars, memVars>>

\* protoc-gen-firestore main: one file
FirestoreFile ==
    /\ gPlugin = "firestore"
    /\ FirestoreBody(gFile, entityMessages(gFile.messages) # <<>>, entityMessages(gFile.messages))

\* the functional protoc-gen-firestore main: one file
FirestoreIdFile ==
    /\ gPlugin = "firestore-functional"
    /\ FirestoreBody(gFile, hasEntities(gFile.messages), <<>>)


-----------------------------------------------------------------------------
(* The repository protoc-gen-inmemory emits for a message with the fields  *)
(* id, email and deleted_at: email is a unique field, so the repository    *)
(* has the index idxEmail, and deleted_at gives it SoftDelete and Restore. *)
(* A method is an operator from the repository's data and index to what it *)
(* leaves there and what it returns; a method that takes r.mu once and     *)
(* holds it to its return is one step of the goroutine calling it.         *)

Goroutines == {1, 2}

\* the ids callers use, and what uuid.New().String() returns
RepoIds == {"a", "u"}

Uuids == {"u"}

Emails == {"x"}

NilEntity == [nil |-> TRUE, Id |-> "", Email |-> "", DeletedAt |-> FALSE]

\* DeletedAt: TRUE for a timestamp, FALSE for nil
Entity(id, email, deletedAt) ==
    [nil |-> FALSE, Id |-> id, Email |-> email, DeletedAt |-> deletedAt]

\* the entities callers pass
EntityPool ==
    {NilEntity} \cup {Entity(id, email, FALSE) : id \in RepoIds \cup {""},
                                                email \in Emails \cup {""}}

MapPut(f, k, v) == [x \in DOMAIN f \cup {k} |-> IF x = k THEN v ELSE f[x]]

MapDelete(f, k) == [x \in DOMAIN f \ {k} |-> f[x]]

Res(data, idx, err, val) == [data |-> data, idx |-> idx, err |-> err, val |-> val]

\* errors.Is(err, ErrNotFound)
IsNotFound(err) == err = "ErrNotFound"

\* Create storing the entity before it checks the unique field
CreateStoreFirst(data, idx, entity, uuid) ==
    IF entity.nil THEN Res(data, idx, "entity cannot be nil", "")
    ELSE
      LET id == IF entity.Id = "" THEN uuid ELSE entity.Id
          stored == MapPut(data, id, [entity EXCEPT !.Id = id])
      IN  IF entity.Id # "" /\ entity.Id \in DOMAIN data
          THEN Res(data, idx, "ErrAlreadyExists", "")
          ELSE IF entity.Email # "" /\ entity.Email \in DOMAIN idx
          THEN Res(stored, idx, "email already exists: ErrAlreadyExists", "")
          ELSE Res(stored,
                   IF entity.Email # "" THEN MapPut(idx, entity.Email, id) ELSE idx,
                   "nil", id)

\* Create(ctx, entity); uuid is what uuid.New().String() returns
Create(data, idx, entity, uuid) ==
    IF entity.nil THEN Res(data, idx, "entity cannot be nil", "")
    ELSE
      LET id == IF entity.Id = "" THEN uuid ELSE entity.Id
      IN  IF entity.Id # "" /\ entity.Id \in DOMAIN data
          THEN Res(data, idx, "ErrAlreadyExists", "")
          ELSE IF entity.Email # "" /\ entity.Email \in DOMAIN idx
          THEN Res(data, idx, "email already exists: ErrAlreadyExists", "")
          ELSE Res(MapPut(data, id, [entity EXCEPT !.Id = id]),
                   IF entity.Email # "" THEN MapPut(idx, entity.Email, id) ELSE idx,
                   "nil", id)

\* Get that does not look at DeletedAt
GetStored(data, idx, id) ==
    IF id = "" THEN Res(data, idx, "ErrInvalidID", NilEntity)
    ELSE IF id \notin DOMAIN data THEN Res(data, idx, "ErrNotFound", NilEntity)
    ELSE Res(data, idx, "nil", data[id])

\* Get(ctx, id)
Get(data, idx, id) ==
    IF id = "" THEN Res(data, idx, "ErrInvalidID", NilEntity)
    ELSE IF id \notin DOMAIN data THEN Res(data, idx, "ErrNotFound", NilEntity)
    ELSE IF data[id].DeletedAt THEN Res(data, idx, "ErrNotFound", NilEntity)
    ELSE Res(data, idx, "nil", data[id])

\* GetOrNil(ctx, id)
GetOrNil(data, idx, id) ==
    LET r == Get(data, idx, id)
    IN  IF IsNotFound(r.err) THEN Res(data, idx, "nil", NilEntity) ELSE r

\* Update(ctx, entity)
Update(data, idx, entity) ==
    IF entity.nil THEN Res(data, idx, "entity cannot be nil", "")
    ELSE IF entity.Id = "" THEN Res(data, idx, "ErrInvalidID", "")
    ELSE IF entity.Id \notin DOMAIN data THEN Res(data, idx, "ErrNotFound", "")
    ELSE IF data[entity.Id].DeletedAt THEN Res(data, idx, "ErrNotFound", "")
    ELSE
      LET old     == data[entity.Id]
          cleaned == IF old.Email # "" THEN MapDelete(idx, old.Email) ELSE idx
      IN  Res(MapPut(data, entity.Id, entity),
              IF entity.Email # "" THEN MapPut(cleaned, entity.Email, entity.Id)
              ELSE cleaned,
              "nil", "")

\* Delete(ctx, id), which HardDelete calls
Delete(data, idx, id) ==
    IF id = "" THEN Res(data, idx, "ErrInvalidID", "")
    ELSE IF id \notin DOMAIN data THEN Res(data, idx, "ErrNotFound", "")
    ELSE Res(MapDelete(data, id),
             IF data[id].Email # "" THEN MapDelete(idx, data[id].Email) ELSE idx,
             "nil", "")

\* SoftDelete(ctx, id)
SoftDelete(data, idx, id) ==
    IF id = "" THEN Res(data, idx, "ErrInvalidID", "")
    ELSE IF id \notin DOMAIN data THEN Res(data, idx, "ErrNotFound", "")
    ELSE IF data[id].DeletedAt THEN Res(data, idx, "nil", "")
    ELSE Res([data EXCEPT ![id].DeletedAt = TRUE], idx, "nil", "")

\* Restore(ctx, id)
Restore(data, idx, id) ==
    IF id = "" THEN Res(data, idx, "ErrInvalidID", "")
    ELSE IF id \notin DOMAIN data THEN Res(data, idx, "ErrNotFound", "")
    ELSE Res([data EXCEPT ![id].DeletedAt = FALSE], idx, "nil", "")

\* List(ctx): the entities come in the order the map is ranged over, so the
\* result is kept as the set of them
List(data, idx) ==
    Res(data, idx, "nil", {data[id] : id \in {k \in DOMAIN data : ~data[k].DeletedAt}})

\* ListAll(ctx)
ListAll(data, idx) == Res(data, idx, "nil", {data[id] : id \in DOMAIN data})

\* Exists(ctx, id)
Exists(data, idx, id) ==
    IF id = "" THEN Res(data, idx, "ErrInvalidID", FALSE)
    ELSE IF id \notin DOMAIN data THEN Res(data, idx, "nil", FALSE)
    ELSE IF data[id].DeletedAt THEN Res(data, idx, "nil", FALSE)
    ELSE Res(data, idx, "nil", TRUE)

\* Count(ctx)
Count(data, idx) ==
    Res(data, idx, "nil", Cardinality({id \in DOMAIN data : ~data[id].DeletedAt}))

\* FindByEmail(ctx, email): email is unique, so the index is asked
FindByEmail(data, idx, email) ==
    IF email \notin DOMAIN idx THEN Res(data, idx, "ErrNotFound", NilEntity)
    ELSE IF idx[email] \notin DOMAIN data THEN Res(data, idx, "ErrNotFound", NilEntity)
    ELSE IF data[idx[email]].DeletedAt THEN Res(data, idx, "ErrNotFound", NilEntity)
    ELSE Res(data, idx, "nil", data[idx[email]])

\* the predicates callers pass to Filter: every entity, or those of an email
Predicates == {"any"} \cup Emails \cup {""}

Holds(predicate, entity) == predicate = "any" \/ entity.Email = predicate

\* Filter(ctx, predicate, limit) with limit 0: no limit
FilterEntities(data, idx, predicate) ==
    Res(data, idx, "nil",
        {data[id] : id \in {k \in DOMAIN data :
                               ~data[k].DeletedAt /\ Holds(predicate, data[k])}})

\* Clear(), after its r.mu.Lock()
Clear(data, idx) == Res(EmptyMap, EmptyMap, "nil", "")

\* Snapshot()
Snapshot(data, idx) == Res(data, idx, "nil", data)

\* the snapshots callers pass to Load
Snapshots == {EmptyMap, MapPut(EmptyMap, "a", Entity("a", "x", FALSE))}

\* the calls that read only
Queries ==
    {<<"Get", id>> : id \in RepoIds \cup {""}}
    \cup {<<"GetOrNil", id>> : id \in RepoIds}
    \cup {<<"Exists", id>> : id \in RepoIds}
    \cup {<<"FindByEmail", e>> : e \in Emails}
    \cup {<<"Filter", p>> : p \in Predicates}
    \cup {<<"List", "">>, <<"ListAll", "">>, <<"Count", "">>, <<"Snapshot", "">>}

Query(data, idx, q) ==
    CASE q[1] = "Get"         -> Get(data, idx, q[2])
      [] q[1] = "GetOrNil"    -> GetOrNil(data, idx, q[2])
      [] q[1] = "Exists"      -> Exists(data, idx, q[2])
      [] q[1] = "FindByEmail" -> FindByEmail(data, idx, q[2])
      [] q[1] = "Filter"      -> FilterEntities(data, idx, q[2])
      [] q[1] = "List"        -> List(data, idx)
      [] q[1] = "ListAll"     -> ListAll(data, idx)
      [] q[1] = "Count"       -> Count(data, idx)
      [] q[1] = "Snapshot"    -> Snapshot(data, idx)

\* whether the call takes r.mu: not when it returns at a check before it
TakesLock(op, arg) ==
    CASE op \in {"Create", "Upsert"}                  -> ~arg.nil
      [] op = "Update"                                -> ~arg.nil /\ arg.Id # ""
      [] op \in {"Delete", "SoftDelete", "Restore"}   -> arg # ""
      [] op \in {"Get", "GetOrNil", "Exists"}         -> arg # ""
      [] OTHER                                        -> TRUE

\* what is kept of a call that returned: the method, its argument (key: an
\* id, an email or a predicate), the error, and the value by its type
NoCall ==
    [op |-> "", key |-> "", entity |-> NilEntity, snapshot |-> EmptyMap,
     err |-> "nil", id |-> "", found |-> {}, ok |-> FALSE, count |-> 0]

Returned(op, arg, r) ==
    LET base == [NoCall EXCEPT !.op = op, !.err = r.err]
    IN  CASE op = "Create" -> [base EXCEPT !.entity = arg, !.id = r.val]
          [] op \in {"Update", "Upsert"} -> [base EXCEPT !.entity = arg]
          [] op \in {"Delete", "HardDelete", "SoftDelete", "Restore"} ->
               [base EXCEPT !.key = arg]
          [] op \in {"Get", "GetOrNil", "FindByEmail"} ->
               [base EXCEPT !.key = arg, !.found = IF r.val.nil THEN {} ELSE {r.val}]
          [] op = "Exists" -> [base EXCEPT !.key = arg, !.ok = r.val]
          [] op = "Filter" -> [base EXCEPT !.key = arg, !.found = r.val]
          [] op \in {"List", "ListAll"} -> [base EXCEPT !.found = r.val]
          [] op = "Count" -> [base EXCEPT !.count = r.val]
          [] op = "Snapshot" -> [base EXCEPT !.snapshot = r.val]
          [] op = "Load" -> [base EXCEPT !.snapshot = arg]
          [] OTHER -> base

\* no call in progress
NoArg == [entity |-> NilEntity, snapshot |-> EmptyMap]

\* NewInMemory...Repository(), and no call made yet
InitMem ==
    /\ mData = EmptyMap
    /\ mIdxEmail = EmptyMap
    /\ mMu = 0
    /\ mPc = [p \in Goroutines |-> "idle"]
    /\ mArg = [p \in Goroutines |-> NoArg]
    /\ mRet = NoCall
    /\ mSoft = [id \in RepoIds |-> FALSE]

\* what a successful removal makes of the soft-delete marks of ids
Removed(soft, ids) == [id \in RepoIds |-> soft[id] /\ id \notin ids]

\* a call returns r and leaves the repository as r says
Leaves(op, arg, r) ==
    /\ mData' = r.data
    /\ mIdxEmail' = r.idx
    /\ mRet' = Returned(op, arg, r)

OthersIdle == UNCHANGED <<tagVars, extVars, optVars, idVars, genVars, fragVars, foldVars, runVars>>

CallCreate ==
    \E p \in Goroutines, entity \in EntityPool, uuid \in Uuids :
      /\ mPc[p] = "idle"
      /\ TakesLock("Create", entity) => mMu = 0
      /\ entity.Id = "" => uuid \notin DOMAIN mData
      /\ Leaves("Create", entity, Create(mData, mIdxEmail, entity, uuid))
      /\ UNCHANGED <<mMu, mPc, mArg, mSoft>>
      /\ OthersIdle

CallUpdate ==
    \E p \in Goroutines, entity \in EntityPool :
      /\ mPc[p] = "idle"
      /\ TakesLock("Update", entity) => mMu = 0
      /\ Leaves("Update", entity, Update(mData, mIdxEmail, entity))
      /\ UNCHANGED <<mMu, mPc, mArg, mSoft>>
      /\ OthersIdle

\* Upsert(ctx, entity) up to the call of Create or Update: with no Id it
\* calls Create at once, else it calls Get, which takes and releases r.mu
CallUpsert ==
    \E p \in Goroutines, entity \in EntityPool, uuid \in Uuids :
      /\ mPc[p] = "idle"
      /\ TakesLock("Upsert", entity) => mMu = 0
      /\ entity.Id = "" => uuid \notin DOMAIN mData
      /\ IF entity.nil
         THEN /\ Leaves("Upsert", entity, Res(mData, mIdxEmail, "entity cannot be nil", ""))
              /\ UNCHANGED <<mPc, mArg>>
         ELSE IF entity.Id = ""
         THEN /\ Leaves("Upsert", entity, Create(mData, mIdxEmail, entity, uuid))
              /\ UNCHANGED <<mPc, mArg>>
         ELSE /\ mPc' = [mPc EXCEPT ![p] =
                           IF IsNotFound(Get(mData, mIdxEmail, entity.Id).err)
                           THEN "Upsert.Create" ELSE "Upsert.Update"]
              /\ mArg' = [mArg EXCEPT ![p] = [NoArg EXCEPT !.entity = entity]]
              /\ UNCHANGED <<mData, mIdxEmail, mRet>>
      /\ UNCHANGED <<mMu, mSoft>>
      /\ OthersIdle

\* _, err = r.Create(ctx, entity); return err
UpsertCreate ==
    \E p \in Goroutines, uuid \in Uuids :
      /\ mPc[p] = "Upsert.Create"
      /\ mMu = 0
      /\ Leaves("Upsert", mArg[p].entity, Create(mData, mIdxEmail, mArg[p].entity, uuid))
      /\ mPc' = [mPc EXCEPT ![p] = "idle"]
      /\ mArg' = [mArg EXCEPT ![p] = NoArg]
      /\ UNCHANGED <<mMu, mSoft>>
      /\ OthersIdle

\* return r.Update(ctx, entity)
UpsertUpdate ==
    \E p \in Goroutines :
      /\ mPc[p] = "Upsert.Update"
      /\ mMu = 0
      /\ Leaves("Upsert", mArg[p].entity, Update(mData, mIdxEmail, mArg[p].entity))
      /\ mPc' = [mPc EXCEPT ![p] = "idle"]
      /\ mArg' = [mArg EXCEPT ![p] = NoArg]
      /\ UNCHANGED <<mMu, mSoft>>
      /\ OthersIdle

\* Delete and HardDelete
CallDelete ==
    \E p \in Goroutines, op \in {"Delete", "HardDelete"}, id \in RepoIds \cup {""} :
      /\ mPc[p] = "idle"
      /\ TakesLock("Delete", id) => mMu = 0
      /\ LET r == Delete(mData, mIdxEmail, id)
         IN  /\ Leaves(op, id, r)
             /\ mSoft' = IF r.err = "nil" THEN Removed(mSoft, {id}) ELSE mSoft
      /\ UNCHANGED <<mMu, mPc, mArg>>
      /\ OthersIdle

CallSoftDelete ==
    \E p \in Goroutines, id \in RepoIds \cup {""} :
      /\ mPc[p] = "idle"
      /\ TakesLock("SoftDelete", id) => mMu = 0
      /\ LET r == SoftDelete(mData, mIdxEmail, id)
         IN  /\ Leaves("SoftDelete", id, r)
             /\ mSoft' = IF r.err = "nil" THEN [mSoft EXCEPT ![id] = TRUE] ELSE mSoft
      /\ UNCHANGED <<mMu, mPc, mArg>>
      /\ OthersIdle

CallRestore ==
    \E p \in Goroutines, id \in RepoIds \cup {""} :
      /\ mPc[p] = "idle"
      /\ TakesLock("Restore", id) => mMu = 0
      /\ LET r == Restore(mData, mIdxEmail, id)
         IN  /\ Leaves("Restore", id, r)
             /\ mSoft' = IF r.err = "nil" THEN [mSoft EXCEPT ![id] = FALSE] ELSE mSoft
      /\ UNCHANGED <<mMu, mPc, mArg>>
      /\ OthersIdle

\* Get, GetOrNil, Exists, FindByEmail, Filter, List, ListAll, Count, Snapshot
CallQuery ==
    \E p \in Goroutines, q \in Queries :
      /\ mPc[p] = "idle"
      /\ TakesLock(q[1], q[2]) => mMu = 0
      /\ Leaves(q[1], q[2], Query(mData, mIdxEmail, q))
      /\ UNCHANGED <<mMu, mPc, mArg, mSoft>>
      /\ OthersIdle

\* Load(data) up to its call of Clear:  r.mu.Lock(); defer r.mu.Unlock()
CallLoad ==
    \E p \in Goroutines, snapshot \in Snapshots :
      /\ mPc[p] = "idle"
      /\ mMu = 0
      /\ mMu' = p
      /\ mPc' = [mPc EXCEPT ![p] = "Load.Clear"]
      /\ mArg' = [mArg EXCEPT ![p] = [NoArg EXCEPT !.snapshot = snapshot]]
      /\ UNCHANGED <<mData, mIdxEmail, mRet, mSoft>>
      /\ OthersIdle

\* Clear(), called by a caller or by Load: it goes on when its r.mu.Lock()
\* gets the lock.  Called by Load, it is followed by the loop that stores a
\* clone of every entity of the snapshot and by the return of Load, which
\* releases the lock Load took.
CallClear ==
    \E p \in Goroutines :
      /\ mPc[p] \in {"idle", "Load.Clear"}
      /\ mMu = 0
      /\ LET r == Clear(mData, mIdxEmail)
         IN  IF mPc[p] = "Load.Clear"
             THEN Leaves("Load", mArg[p].snapshot, Res(mArg[p].snapshot, r.idx, "nil", ""))
             ELSE Leaves("Clear", "", r)
      /\ mSoft' = Removed(mSoft, RepoIds)
      /\ mPc' = [mPc EXCEPT ![p] = "idle"]
      /\ mArg' = [mArg EXCEPT ![p] = NoArg]
      /\ UNCHANGED mMu
      /\ OthersIdle

-----------------------------------------------------------------------------
(* The wire format itself, written down from its definition and not from   *)
(* any of the readers above: a message is a run of fields, a field is a    *)
(* tag varint (number << 3 | wire type) and a value whose extent the wire  *)
(* type gives.  Varints are kept as their 7-bit groups, lowest first.      *)

\* the number of bytes of the varint at the head of bs, 0 if there is none
WireVarintSize(bs) ==
    LET ends == {k \in 1..Len(bs) : k <= 10 /\ bs[k] < 128
                                    /\ \A j \in 1..(k - 1) : bs[j] >= 128}
    IN  IF ends = {} THEN 0
        ELSE LET k == CHOOSE e \in ends : TRUE
             IN  IF k = 10 /\ bs[10] > 1 THEN 0 ELSE k

\* its groups, without the zero groups at the top
RECURSIVE WireTrim(_)
WireTrim(ds) ==
    IF ds # <<>> /\ ds[Len(ds)] = 0 THEN WireTrim(Take(ds, Len(ds) - 1)) ELSE ds

WireGroups(bs) == WireTrim([k \in 1..WireVarintSize(bs) |-> bs[k] % 128])

RECURSIVE WireSum(_)
WireSum(ds) == IF ds = <<>> THEN 0 ELSE Head(ds) + 128 * WireSum(Tail(ds))

\* a length: its value when below 2^28, else more than any input holds
WireLength(bs) ==
    IF Len(WireGroups(bs)) <= 4 THEN WireSum(WireGroups(bs)) ELSE 128 ^ 4

\* a tag: field numbers run from 1 to 2^31 - 1
WireTagOk(bs) ==
    LET ds == WireGroups(bs)
    IN  /\ WireVarintSize(bs) > 0
        /\ Len(ds) <= 5
        /\ (Len(ds) = 5 => ds[5] < 64)
        /\ (Len(ds) >= 2 \/ (Len(ds) = 1 /\ ds[1] >= 8))

WireTagNum(bs) ==
    LET ds == WireGroups(bs)
    IN  (Head(ds) \div 8) + 16 * WireSum(Tail(ds))

WireTagType(bs) == Head(WireGroups(bs)) % 8

\* the field at the head of bs: ok, number, wire type, size in bytes, and
\* the payload of a length-delimited field
WireField(bs) ==
    LET bad == [ok |-> FALSE, num |-> 0, wt |-> 0, size |-> 0, payload |-> <<>>]
    IN  IF ~WireTagOk(bs) THEN bad
        ELSE
          LET k    == WireVarintSize(bs)
              rest == Drop(bs, k)
              num  == WireTagNum(bs)
              wt   == WireTagType(bs)
              fld(sz, pl) == [ok |-> TRUE, num |-> num, wt |-> wt,
                              size |-> k + sz, payload |-> pl]
          IN  CASE wt = 0 -> IF WireVarintSize(rest) = 0 THEN bad
                             ELSE fld(WireVarintSize(rest), <<>>)
                [] wt = 1 -> IF Len(rest) < 8 THEN bad ELSE fld(8, <<>>)
                [] wt = 5 -> IF Len(rest) < 4 THEN bad ELSE fld(4, <<>>)
                [] wt = 2 ->
                     LET n == WireVarintSize(rest)
                         m == WireLength(rest)
                     IN  IF n = 0 \/ m > Len(rest) - n THEN bad
                         ELSE fld(n + m, SubSeq(rest, n + 1, n + m))
                [] OTHER  -> bad

\* bs is a run of whole fields of wire types 0, 1, 2 and 5
RECURSIVE WireWellFormed(_)
WireWellFormed(bs) ==
    \/ bs = <<>>
    \/ /\ WireField(bs).ok
       /\ WireWellFormed(Drop(bs, WireField(bs).size))

\* a well-formed bs holds, at top level, a field num of wire type wt
RECURSIVE WireHasField(_, _, _)
WireHasField(bs, num, wt) ==
    /\ bs # <<>>
    /\ \/ WireField(bs).num = num /\ WireField(bs).wt = wt
       \/ WireHasField(Drop(bs, WireField(bs).size), num, wt)

\* the payload of the first top-level length-delimited field num, reading
\* whole fields from the left; nil when the fields end, or stop being whole
\* fields, before one is found
RECURSIVE WireFirstBytes(_, _)
WireFirstBytes(bs, num) ==
    IF bs = <<>> \/ ~WireField(bs).ok
    THEN NilBytes
    ELSE IF WireField(bs).num = num /\ WireField(bs).wt = 2
    THEN SomeBytes(WireField(bs).payload)
    ELSE WireFirstBytes(Drop(bs, WireField(bs).size), num)

-----------------------------------------------------------------------------
(* Specifications: each runs one part of the program, the others idle.     *)

IdleTag ==
    /\ tFn = "" /\ tB = <<>> /\ tNum = 0 /\ tI = U64Zero
    /\ tSt = "idle" /\ tRet = FALSE

IdleExt ==
    /\ xB = <<>> /\ xNum = 0 /\ xRaw = <<>> /\ xSt = "idle" /\ xRet = NilBytes

IdleOpt ==
    /\ oFn = "" /\ oIn = NilBytes /\ oData = <<>> /\ oOpts = NilOptions
    /\ oSt = "idle" /\ oBad = FALSE

IdleId == iFields = <<>> /\ iRes = [r \in Resolvers |-> Unset]

IdleGen ==
    /\ gPlugin = "" /\ gFile = <<>> /\ gRun = 0 /\ gPc = "idle" /\ gEntities = <<>>
    /\ gServices = <<>> /\ gNext = 0 /\ gOut = NoOutput /\ gOut1 = NoOutput

IdleFrag == fFam = "" /\ fFrags = <<>> /\ fHow = <<>> /\ fRuns = <<>>

IdleFold == hXs = <<>> /\ hF = <<>> /\ hPred = <<>> /\ hCode = <<>> /\ hRes = <<>>

IdleRun == rFiles = <<>> /\ rAt = 0 /\ rErrorsGenerated = FALSE /\ rEmitted = <<>>

IdleMem ==
    /\ mData = <<>> /\ mIdxEmail = <<>> /\ mMu = 0 /\ mPc = <<>> /\ mArg = <<>>
    /\ mRet = <<>> /\ mSoft = <<>>

vars == <<tagVars, extVars, optVars, idVars, genVars, fragVars, foldVars, runVars, memVars>>

InitTagWalk == InitTag /\ IdleExt /\ IdleOpt /\ IdleId /\ IdleGen /\ IdleFrag /\ IdleFold /\ IdleRun /\ IdleMem

NextTag == TagStep

SpecTag == InitTagWalk /\ [][NextTag]_vars

InitExtWalk == InitExt /\ IdleTag /\ IdleOpt /\ IdleId /\ IdleGen /\ IdleFrag /\ IdleFold /\ IdleRun /\ IdleMem

NextExt == ExtStep

SpecExt == InitExtWalk /\ [][NextExt]_vars

InitOptWalk == InitOpt /\ IdleTag /\ IdleExt /\ IdleId /\ IdleGen /\ IdleFrag /\ IdleFold /\ IdleRun /\ IdleMem

NextOpt == OptEnter \/ OptStep

SpecOpt == InitOptWalk /\ [][NextOpt]_vars

\* the walk of parseCategoryMessageOptions alone
InitMessageOptions == InitOptWalk /\ oFn = "parseCategoryMessageOptions"

SpecMessageOpt == InitMessageOptions /\ [][NextOpt]_vars

InitResolve == InitId /\ IdleTag /\ IdleExt /\ IdleOpt /\ IdleGen /\ IdleFrag /\ IdleFold /\ IdleRun /\ IdleMem

NextId == ResolveFind \/ ResolveGet \/ ResolveConfig

SpecId == InitResolve /\ [][NextId]_vars

InitPlugins == InitGen /\ IdleTag /\ IdleExt /\ IdleOpt /\ IdleId /\ IdleFrag /\ IdleFold /\ IdleRun /\ IdleMem

NextGen ==
    \/ StubEntities \/ StubAnalyze \/ StubGenerate
    \/ ServerEntities \/ ServerExtract \/ ServerGenerate
    \/ MonoidStart \/ MonoidExtract \/ MonoidGenerate
    \/ Rerun

SpecGen == InitPlugins /\ [][NextGen]_vars


InitStubRun == InitStub /\ IdleTag /\ IdleExt /\ IdleOpt /\ IdleId /\ IdleFrag /\ IdleFold /\ IdleRun /\ IdleMem

NextStub == StubEntities \/ StubAnalyze \/ StubGenerate

SpecStub == InitStubRun /\ [][NextStub]_vars


InitFragments == InitFrag /\ IdleTag /\ IdleExt /\ IdleOpt /\ IdleId /\ IdleGen /\ IdleFold /\ IdleRun /\ IdleMem

NextFrag == BuildAppend \/ BuildConcat \/ BuildIndent \/ BuildWhen \/ Render

SpecFrag == InitFragments /\ [][NextFrag]_vars



InitIndent == InitLit /\ IdleTag /\ IdleExt /\ IdleOpt /\ IdleId /\ IdleGen /\ IdleFold /\ IdleRun /\ IdleMem

NextIndent == BuildAppend \/ BuildConcat \/ BuildIndent \/ Render

SpecIndent == InitIndent /\ [][NextIndent]_vars


InitFolds == InitFold /\ IdleTag /\ IdleExt /\ IdleOpt /\ IdleId /\ IdleGen /\ IdleFrag /\ IdleRun /\ IdleMem

NextFold == ApplyMap \/ ApplyFilter \/ ApplyFoldMap \/ ApplyConcat

SpecFold == InitFolds /\ [][NextFold]_vars



InitConcats == InitConcat /\ IdleTag /\ IdleExt /\ IdleOpt /\ IdleId /\ IdleGen /\ IdleFrag /\ IdleRun /\ IdleMem

NextConcat == ApplyConcatLeft \/ ApplyConcat

SpecConcat == InitConcats /\ [][NextConcat]_vars


InitRuns == InitRun /\ IdleTag /\ IdleExt /\ IdleOpt /\ IdleId /\ IdleFrag /\ IdleFold /\ IdleMem

NextRun ==
    \/ StubEntities \/ StubAnalyze \/ StubGenerate
    \/ ServerEntities \/ ServerExtract \/ ServerGenerate
    \/ NextFile \/ FirestoreFile \/ FirestoreIdFile

SpecRun == InitRuns /\ [][NextRun]_vars

\* goroutines calling the methods of an in-memory repository
InitRepository ==
    InitMem /\ IdleTag /\ IdleExt /\ IdleOpt /\ IdleId /\ IdleGen /\ IdleFrag /\ IdleFold /\ IdleRun

NextMem ==
    \/ CallCreate \/ CallUpdate \/ CallUpsert \/ UpsertCreate \/ UpsertUpdate
    \/ CallDelete \/ CallSoftDelete \/ CallRestore \/ CallClear

SpecMem == InitRepository /\ [][NextMem]_vars

\* callers that write and read, each call one step
InitSoft == InitRepository

NextSoft ==
    \/ CallCreate \/ CallUpdate \/ CallDelete \/ CallSoftDelete \/ CallRestore
    \/ CallQuery \/ CallClear

SpecSoft == InitSoft /\ [][NextSoft]_vars

\* callers that load snapshots; a goroutine that is inside Load and can take
\* the lock Clear asks for is scheduled at some time
InitLoad == InitRepository

NextLoad == CallCreate \/ CallDelete \/ CallQuery \/ CallClear \/ CallLoad

LoadGoesOn(p) == CallClear /\ mPc[p] = "Load.Clear" /\ mPc'[p] = "idle"

SpecLoad ==
    /\ InitLoad
    /\ [][NextLoad]_vars
    /\ \A p \in Goroutines : WF_vars(LoadGoesOn(p))

-----------------------------------------------------------------------------
(* Claims about the wire-format readers.                                   *)

\* C3: containsTag / containsFieldTag never raises, for any byte sequence
\* and any field number: the walk never indexes the bytes out of range.
C3_TagWalkNeverRaises == tSt # "panic"

\* C4: when parseExtension(m, N) returns, it returns exactly the payload of
\* the first top-level length-delimited field N of the unknown bytes, and
\* nil when there is none or the bytes stop being whole fields before it.
C4_ParseExtensionFirstPayload ==
    xSt = "done" => xRet = WireFirstBytes(xB, xNum)

\* C4 witness: the payload "pl" of field 7 was returned from behind another
\* field that had to be skipped.
C4_Witness ==
    /\ xSt = "done" /\ xNum = 7
    /\ xRet = SomeBytes(<<112, 108>>)
    /\ Len(xB) > 4

\* C5: in the option parsers, once a malformed varint or a length or
\* fixed-width value that runs past the end of the input has been met, the
\* walk is aborted: nothing is set in the result from the bytes after it.
C5_NothingSetAfterMalformed == [][oBad => oOpts' = oOpts]_vars

\* C6: on every well-formed byte sequence the walk answers true exactly when
\* a top-level field with the asked number and wire type 2 is there.
C6_TagFoundIffTopLevelField ==
    (tSt = "done" /\ WireWellFormed(tB)) => (tRet <=> WireHasField(tB, tNum, 2))

\* C6 witness: the entity option 50000 was found behind a field that was
\* skipped.
C6_Witness ==
    /\ tSt = "done" /\ tRet /\ tNum = entityExtensionNumber
    /\ WireWellFormed(tB) /\ Len(tB) > 4

-----------------------------------------------------------------------------
(* Claims about the identifier-field resolvers.                            *)

\* the first field whose name ends in _id, the letters compared as written
FirstIdSuffixExact(fs) ==
    IF \E k \in 1..Len(fs) : HasSuffix(fs[k].name, IdSuffix)
    THEN CHOOSE k \in 1..Len(fs) :
            /\ HasSuffix(fs[k].name, IdSuffix)
            /\ \A j \in 1..(k - 1) : ~HasSuffix(fs[j].name, IdSuffix)
    ELSE 0

\* the first field that passes the test, 0 for none, by a walk from the left
RECURSIVE IdRuleFirst(_, _, _)
IdRuleFirst(fs, rule, k) ==
    IF k > Len(fs) THEN 0
    ELSE IF \/ rule = "id" /\ ToLower(fs[k].name) = IdName
            \/ rule = "_id" /\ Len(fs[k].name) >= 3
                            /\ ToLower(Drop(fs[k].name, Len(fs[k].name) - 3)) = IdSuffix
            \/ rule = "string" /\ fs[k].kind = "string"
    THEN k
    ELSE IdRuleFirst(fs, rule, k + 1)

\* C7 as stated: (1) the first field named id, compared case-insensitively;
\* else (2) the first field whose name ends in _id; else (3) the first
\* string field; else (4) the sentinel.
C7_FindIDFieldOrderAsStated ==
    iRes["findIDField"].set =>
        iRes["findIDField"].val =
            IF IdRuleFirst(iFields, "id", 1) # 0
            THEN iFields[IdRuleFirst(iFields, "id", 1)].name
            ELSE IF FirstIdSuffixExact(iFields) # 0
            THEN iFields[FirstIdSuffixExact(iFields)].name
            ELSE IF IdRuleFirst(iFields, "string", 1) # 0
            THEN iFields[IdRuleFirst(iFields, "string", 1)].name
            ELSE SentinelName

\* C7 amended: as stated, with the _id ending of rule (2) compared
\* case-insensitively as well.
C7_FindIDFieldOrder ==
    iRes["findIDField"].set =>
        iRes["findIDField"].val =
            IF IdRuleFirst(iFields, "id", 1) # 0
            THEN iFields[IdRuleFirst(iFields, "id", 1)].name
            ELSE IF IdRuleFirst(iFields, "_id", 1) # 0
            THEN iFields[IdRuleFirst(iFields, "_id", 1)].name
            ELSE IF IdRuleFirst(iFields, "string", 1) # 0
            THEN iFields[IdRuleFirst(iFields, "string", 1)].name
            ELSE SentinelName

\* C7 witness: rule (1) won over an _id field and a string field that both
\* stand before the id field.
C7_Witness ==
    /\ iRes["findIDField"].set
    /\ Len(iFields) = 3
    /\ iRes["findIDField"].val = iFields[3].name
    /\ hasIdSuffix(iFields[1].name)
    /\ iFields[2].kind = "string"

\* C8: getIDField and getEntityConfig choose the id field whenever there is
\* one, also behind a field ending in _id; an _id field only when there is
\* no id field; the sentinel "Id" only when there is neither.
C8_ResolversPreferId ==
    \A r \in {"getIDField", "getEntityConfig"} :
        iRes[r].set =>
            iRes[r].val =
                IF IdRuleFirst(iFields, "id", 1) # 0
                THEN GoName(iFields[IdRuleFirst(iFields, "id", 1)].name)
                ELSE IF IdRuleFirst(iFields, "_id", 1) # 0
                THEN GoName(iFields[IdRuleFirst(iFields, "_id", 1)].name)
                ELSE SentinelGoName

-----------------------------------------------------------------------------
(* Claims about the classification of methods and the generated files.     *)

Unclassified == [op |-> "", entity |-> <<>>, idField |-> <<>>, listField |-> <<>>]

\* the class connect-server gave the j-th method of the k-th service: its
\* MethodInfo in the services map, none when extractMethods left it out
ServerClass(k, j) ==
    LET svc  == gFile.services[k]
        ms   == IF svc.GoName \in DOMAIN gServices THEN gServices[svc.GoName] ELSE <<>>
        hits == {i \in 1..Len(ms) : ms[i].GoName = GoName(svc.methods[j].name)}
    IN  IF hits = {} THEN Unclassified
        ELSE LET i == CHOOSE h \in hits : TRUE
             IN  [op |-> ms[i].Op, entity |-> ms[i].Entity, idField |-> ms[i].Config.IDGoName,
                  listField |-> IF ms[i].Op = "list" THEN serverListField(ms[i]) ELSE <<>>]

StubClass(k, j) ==
    LET info == gServices[k].Methods[j]
    IN  [op |-> info.Op, entity |-> info.Entity, idField |-> info.IDField,
         listField |-> IF info.Op = "list" THEN stubListField(info) ELSE <<>>]

MonoidClass(k, j) ==
    LET info == gServices[k].Methods[j]
    IN  [op |-> info.Operation, entity |-> info.EntityName, idField |-> <<>>,
         listField |-> <<>>]

\* the methods of the services analysed so far in the run, each with its
\* declaration and the class the plug-in gave it
Classified ==
    IF gPc \notin {"services", "generate", "done"} THEN {}
    ELSE
      {[decl |-> gFile.services[p[1]].methods[p[2]],
        class |-> CASE gPlugin = "service-stubs"  -> StubClass(p[1], p[2])
                    [] gPlugin = "connect-server" -> ServerClass(p[1], p[2])
                    [] OTHER                      -> MonoidClass(p[1], p[2])] :
          p \in {q \in (1..Len(gFile.services)) \X (1..MaxMethods) :
                    /\ q[1] < gNext
                    /\ gPc # "done" \/ Len(gFile.services) > 0
                    /\ q[2] <= Len(gFile.services[q[1]].methods)}}

\* C1: two methods of the same file with the same input type and the same
\* output type are given the same pattern and the same bound entity,
\* whatever their names are.
C1_SameShapeSameClass ==
    \A a, b \in Classified :
        (a.decl.input = b.decl.input /\ a.decl.output = b.decl.output)
            => (a.class.op = b.class.op /\ a.class.entity = b.class.entity)

\* C2: the second run over the same file writes the text the first run
\* wrote.
C2_SecondRunSameText == (gRun = 2 /\ gPc = "done") => gOut = gOut1

\* the methods classified by the plug-ins that keep an entity registry
RegistryClassified ==
    IF gPlugin \in {"service-stubs", "connect-server"} THEN Classified ELSE {}

\* the input type has a field of kind string whose GoName is idField
HasStringIdField(input, idField) ==
    \E k \in 1..Len(FindMessage(gFile.messages, input).fields) :
        /\ FindMessage(gFile.messages, input).fields[k].kind = "string"
        /\ GoName(FindMessage(gFile.messages, input).fields[k].name) = idField

\* C9: a method is classified delete only if its output type is Empty and
\* its input type has a string field that is the ID field of the bound
\* entity, a registered one.
C9_DeleteOnlyOnDeleteShape ==
    \A c \in RegistryClassified :
        c.class.op = "delete" =>
            /\ c.decl.output = nEmpty
            /\ c.class.entity \in DOMAIN gEntities
            /\ HasStringIdField(c.decl.input, c.class.idField)

\* C10: a method is classified get only if its output type is the message
\* of a registered entity, that entity is the bound one, and its input type
\* has a field that is the entity's ID field.
C10_GetOnlyOnGetShape ==
    \A c \in RegistryClassified :
        c.class.op = "get" =>
            /\ c.decl.output \in DOMAIN gEntities
            /\ c.class.entity = c.decl.output
            /\ \E k \in 1..Len(FindMessage(gFile.messages, c.decl.input).fields) :
                  GoName(FindMessage(gFile.messages, c.decl.input).fields[k].name)
                      = c.class.idField

\* the output type has a repeated message field of element type entity whose
\* GoName is listField
HasRepeatedEntityField(output, entity, listField) ==
    \E k \in 1..Len(FindMessage(gFile.messages, output).fields) :
        /\ FindMessage(gFile.messages, output).fields[k].list
        /\ FindMessage(gFile.messages, output).fields[k].kind = "message"
        /\ FindMessage(gFile.messages, output).fields[k].elem = entity
        /\ GoName(FindMessage(gFile.messages, output).fields[k].name) = listField

\* C11: a method is classified list only with a registered entity and an
\* output message that has a repeated field of that entity's message type,
\* and the list field the handler reads is the name of such a field.
C11_ListFieldIsRepeatedEntity ==
    \A c \in RegistryClassified :
        c.class.op = "list" =>
            /\ c.class.entity \in DOMAIN gEntities
            /\ HasRepeatedEntityField(c.decl.output, c.class.entity, c.class.listField)

-----------------------------------------------------------------------------
(* Claims about the handlers service-stubs writes.                         *)

\* the index of the first line of ls that is the closing brace of a
\* function, Len(ls) + 1 when there is none
RECURSIVE ClosingLine(_, _)
ClosingLine(ls, k) ==
    IF k > Len(ls) THEN k
    ELSE IF ls[k] = <<"}">> THEN k
    ELSE ClosingLine(ls, k + 1)

\* the handlers of a generated text in the order they stand in it: of each
\* func with a receiver its receiver type, its name and the lines of its body
RECURSIVE EmittedHandlers(_)
EmittedHandlers(ls) ==
    IF ls = <<>> THEN <<>>
    ELSE IF Head(ls) # <<>> /\ Head(ls)[1] = "func ("
    THEN LET sig == Head(ls)
             p   == CHOOSE i \in 1..Len(sig) :
                        sig[i] = ") " /\ \A h \in 1..(i - 1) : sig[h] # ") "
             q   == CHOOSE i \in (p + 1)..Len(sig) :
                        sig[i] = "(" /\ \A h \in (p + 1)..(i - 1) : sig[h] # "("
             n   == ClosingLine(Tail(ls), 1)
         IN  <<[svc |-> SubSeq(sig, 3, p - 1), name |-> SubSeq(sig, p + 1, q - 1),
                body |-> Take(Tail(ls), n - 1)]>>
             \o EmittedHandlers(Drop(Tail(ls), n))
    ELSE EmittedHandlers(Tail(ls))

\* the lines of the atoms lo..hi of a text, the atoms after the last
\* newline being the last line: the two halves split, and the line that
\* runs across the middle put together again
RECURSIVE LinesBetween(_, _, _)
LinesBetween(t, lo, hi) ==
    IF lo > hi THEN << <<>> >>
    ELSE IF lo = hi THEN (IF t[lo] = "\n" THEN << <<>>, <<>> >> ELSE << <<t[lo]>> >>)
    ELSE LET mid == (lo + hi) \div 2
             L   == LinesBetween(t, lo, mid)
             R   == LinesBetween(t, mid + 1, hi)
         IN  Take(L, Len(L) - 1) \o <<L[Len(L)] \o R[1]>> \o Tail(R)

\* the lines of a text that ends in a newline
LinesOf(text) == Take(LinesBetween(text, 1, Len(text)), Len(LinesBetween(text, 1, Len(text))) - 1)

\* the name begins with none of the prefixes of an operation, or what is
\* left of it is no entity of the registry
NoRuleOrEntity(name) ==
    \/ \A pre \in {<<"G", "e", "t">>, <<"L", "i", "s", "t">>, <<"D", "e", "l", "e", "t", "e">>, <<"C", "r", "e", "a", "t", "e">>, <<"U", "p", "d", "a", "t", "e">>} : ~HasPrefix(name, pre)
    \/ /\ HasPrefix(name, <<"G", "e", "t">>) /\ TrimPrefix(name, <<"G", "e", "t">>) \notin DOMAIN gEntities
    \/ /\ HasPrefix(name, <<"L", "i", "s", "t">>)
       /\ TrimSuffix(TrimPrefix(name, <<"L", "i", "s", "t">>), <<"s">>) \notin DOMAIN gEntities
    \/ /\ HasPrefix(name, <<"D", "e", "l", "e", "t", "e">>) /\ TrimPrefix(name, <<"D", "e", "l", "e", "t", "e">>) \notin DOMAIN gEntities

\* the declared methods of the file, service after service, each with the
\* handler the method would be given were it the only one of the file
DeclaredHandlers ==
    Flatten([k \in 1..Len(gFile.services) |->
        [j \in 1..Len(gFile.services[k].methods) |->
            [svc |-> gFile.services[k].GoName,
             name |-> GoName(gFile.services[k].methods[j].name),
             body |-> LinesOf(stubBody(analyzeMethod(gFile.services[k].methods[j],
                                                     stubEntities(gFile.messages, EmptyMap),
                                                     gFile.messages)))]]])

\* C12: service-stubs gives every declared method one MethodInfo and one
\* handler, in the order of declaration; a method of no rule or of no
\* registered entity has the empty operation and the Unimplemented body; and
\* every handler is the one its method would have alone.
C12_OneHandlerPerMethod ==
    /\ gPc \in {"generate", "done"} /\ Len(gFile.services) > 0 =>
          /\ Len(gServices) = Len(gFile.services)
          /\ \A k \in 1..Len(gServices) :
                /\ Len(gServices[k].Methods) = Len(gFile.services[k].methods)
                /\ \A j \in 1..Len(gServices[k].Methods) :
                      /\ gServices[k].Methods[j].GoName = GoName(gFile.services[k].methods[j].name)
                      /\ NoRuleOrEntity(gFile.services[k].methods[j].name)
                            => gServices[k].Methods[j].Op = ""
    /\ gOut.written =>
          /\ EmittedHandlers(LinesOf(gOut.text)) = DeclaredHandlers
          /\ \A h \in 1..Len(DeclaredHandlers) :
                (\E k \in 1..Len(gFile.services), j \in 1..MaxHandlers :
                    /\ j <= Len(gFile.services[k].methods)
                    /\ GoName(gFile.services[k].methods[j].name) = DeclaredHandlers[h].name
                    /\ gFile.services[k].GoName = DeclaredHandlers[h].svc
                    /\ NoRuleOrEntity(gFile.services[k].methods[j].name))
                => EmittedHandlers(LinesOf(gOut.text))[h].body
                       = LinesOf(generateUnimplemented)

\* a file was written for a service whose second method has no operation,
\* between two that have one
C12_Witness ==
    /\ gOut.written
    /\ \E k \in 1..Len(gServices) :
          /\ Len(gServices[k].Methods) = 3
          /\ gServices[k].Methods[1].Op # ""
          /\ gServices[k].Methods[2].Op = ""
          /\ gServices[k].Methods[3].Op # ""

-----------------------------------------------------------------------------
(* Claims about the fragment algebra.                                      *)

\* C13: a fragment appended to empty, on either side, renders as the
\* fragment alone; with append2 and empty, and with CodeMonoid's Append and
\* Empty.
C13_AppendEmptyIsIdentity ==
    \A i \in 1..Len(fFrags) :
        IF fFam = "connect-server"
        THEN /\ Run(append2Thunk(fFrags[i], emptyThunk)).text = Run(fFrags[i]).text
             /\ Run(append2Thunk(emptyThunk, fFrags[i])).text = Run(fFrags[i]).text
        ELSE /\ Run(AppendThunk(fFrags[i], EmptyThunk)).text = Run(fFrags[i]).text
             /\ Run(AppendThunk(EmptyThunk, fFrags[i])).text = Run(fFrags[i]).text

\* a fragment that renders some text was put together with the empty one,
\* by concat (empty on the left) or by Concat (Empty on the right), and the
\* result was rendered
C13_Witness ==
    \E k \in 1..Len(fFrags) :
        /\ fHow[k].op = "concat"
        /\ Len(fHow[k].args) = 1
        /\ fFrags[k][1] \in {"append2", "Append"}
        /\ fRuns[k].n > 0
        /\ fRuns[k].first # <<>>

\* C14: the two ways of appending three fragments render the same string.
C14_AppendAssociative ==
    \A i, j, k \in 1..Len(fFrags) :
        IF fFam = "connect-server"
        THEN Run(append2Thunk(append2Thunk(fFrags[i], fFrags[j]), fFrags[k])).text
                = Run(append2Thunk(fFrags[i], append2Thunk(fFrags[j], fFrags[k]))).text
        ELSE Run(AppendThunk(AppendThunk(fFrags[i], fFrags[j]), fFrags[k])).text
                = Run(AppendThunk(fFrags[i], AppendThunk(fFrags[j], fFrags[k]))).text

\* an append of two fragments that are appends themselves was rendered, and
\* gave some text
C14_Witness ==
    \E k \in 1..Len(fFrags) :
        /\ fHow[k].op = "append"
        /\ fFrags[k][2][1] \in {"append2", "Append"}
        /\ fFrags[k][3][1] \in {"append2", "Append"}
        /\ fRuns[k].n > 0
        /\ fRuns[k].first # <<>>


\* the items of xs that pred holds of, in the order of xs
KeptItems == LET Keeps(x) == hPred[x] IN SelectSeq(hXs, Keeps)

\* what the Code of each item of xs renders, one after the other in the
\* order of xs
ItemTexts == Flatten([k \in 1..Len(hXs) |-> Run(hCode[hXs[k]]).text])

\* C15: FoldMap and Concat render the renderings of the items in the order
\* of the list; Map gives f of each element, in the same order and number;
\* Filter gives the elements pred holds of, in the order they had.
C15_FoldsKeepOrder ==
    /\ hRes["FoldMap"].set => Run(hRes["FoldMap"].val).text = ItemTexts
    /\ hRes["Concat"].set => Run(hRes["Concat"].val).text = ItemTexts
    /\ hRes["Map"].set =>
          /\ Len(hRes["Map"].val) = Len(hXs)
          /\ \A k \in 1..Len(hXs) : hRes["Map"].val[k] = hF[hXs[k]]
    /\ hRes["Filter"].set => hRes["Filter"].val = KeptItems

\* all four were applied to a list of three items, the second unlike the
\* other two, where f, pred and the Code tell the items apart
C15_Witness ==
    /\ \A fn \in ListFns : hRes[fn].set
    /\ hXs = <<"x", "y", "x">>
    /\ hF["x"] # hF["y"]
    /\ hPred["x"] /\ ~hPred["y"]
    /\ Run(hCode["x"]).text # <<>> /\ Run(hCode["y"]).text # <<>>
    /\ Run(hCode["x"]).text # Run(hCode["y"]).text

\* a text with a tab before every line that is not empty, read off the text
\* character by character
RECURSIVE TabbedFrom(_, _)
TabbedFrom(text, atLineStart) ==
    IF text = <<>> THEN <<>>
    ELSE IF Head(text) = "\n" THEN <<"\n">> \o TabbedFrom(Tail(text), TRUE)
    ELSE (IF atLineStart THEN <<"\t">> ELSE <<>>) \o <<Head(text)>>
             \o TabbedFrom(Tail(text), FALSE)

NewlinesOf(text) == Cardinality({k \in 1..Len(text) : text[k] = "\n"})

\* the fragment indented, by the helper of the family
Indented(c) == IF fFam = "connect-server" THEN indentThunk(c) ELSE IndentThunk(c)

\* C16: Indent(c) and indent(c) render c with one tab before every line
\* that is not empty and nothing before an empty one, with as many lines in
\* the same order; two lines come out with one tab each, and a blank line
\* between two lines stays empty.
C16_IndentTabsNonEmptyLines ==
    /\ \A i \in 1..Len(fFrags) :
          /\ Run(Indented(fFrags[i])).text = TabbedFrom(Run(fFrags[i]).text, TRUE)
          /\ NewlinesOf(Run(Indented(fFrags[i])).text) = NewlinesOf(Run(fFrags[i]).text)
    /\ Run(indentThunk(append2Thunk(lineThunk(<<"a">>), lineThunk(<<"b">>)))).text
          = <<"\t", "a", "\n", "\t", "b", "\n">>
    /\ Run(IndentThunk(AppendThunk(LineThunk(<<"a">>), LineThunk(<<"b">>)))).text
          = <<"\t", "a", "\n", "\t", "b", "\n">>

\* two lines with a blank one between them were indented and rendered
C16_Witness ==
    \E k \in 1..Len(fFrags) :
        /\ fHow[k].op = "indent"
        /\ fRuns[k].n > 0
        /\ Run(fFrags[fHow[k].args[1]]).text = <<"a", "\n", "\n", "b", "\n">>
        /\ fRuns[k].first = <<"\t", "a", "\n", "\n", "\t", "b", "\n">>

\* C17: When(true, c) renders as c, When(false, c) renders the empty
\* string, and a fragment with When(false, c) appended renders as before.
C17_WhenIsOperandOrEmpty ==
    fFam = "connect-server-monoid" =>
        /\ \A i \in 1..Len(fFrags) :
              /\ Run(WhenThunk(TRUE, fFrags[i])).text = Run(fFrags[i]).text
              /\ Run(WhenThunk(FALSE, fFrags[i])).text = <<>>
              /\ \A j \in 1..Len(fFrags) :
                    Run(AppendThunk(fFrags[j], WhenThunk(FALSE, fFrags[i]))).text
                        = Run(fFrags[j]).text
        /\ \A k \in 1..Len(fFrags) :
              fHow[k].op = "When" /\ fRuns[k].n > 0 =>
                  fRuns[k].first = IF fHow[k].cond THEN Run(fFrags[fHow[k].args[1]]).text
                                   ELSE <<>>

\* When(false, c) of a fragment that renders some text was built and
\* rendered
C17_Witness ==
    \E k \in 1..Len(fFrags) :
        /\ fHow[k].op = "When"
        /\ ~fHow[k].cond
        /\ Run(fFrags[fHow[k].args[1]]).text # <<>>
        /\ fRuns[k].n > 0

\* C18: a fragment renders the same string every time; no step changes a
\* fragment that was built, and building a fragment runs none of its
\* operands and leaves what they rendered as it was.
C18_FragmentsPure ==
    /\ [](\A i \in 1..Len(fFrags) : fRuns[i].n > 0 => fRuns[i].last = fRuns[i].first)
    /\ [][/\ (\A i \in 1..Len(fFrags) :
                 /\ fFrags'[i] = fFrags[i]
                 /\ fRuns[i].n > 0 => fRuns'[i].last = fRuns[i].first)
          /\ Len(fFrags') > Len(fFrags) =>
                (\A k \in 1..Len(fFrags) :
                    /\ fRuns'[k].n = fRuns[k].n
                    /\ fRuns'[k].first = fRuns[k].first
                    /\ fRuns'[k].last = fRuns[k].last)]_vars

\* a fragment was rendered, then made an operand of another, then rendered
\* once more
C18_Witness ==
    \E i \in 1..Len(fFrags) :
        /\ fRuns[i].again
        /\ fRuns[i].first # <<>>
        /\ \E k \in 1..Len(fFrags) : k # i /\ fRuns[k].n > 0 /\ fHow[k].op \in {"append", "indent"}
                                        /\ \E h \in 1..Len(fHow[k].args) : fHow[k].args[h] = i

-----------------------------------------------------------------------------
(* Claims about a run over several files.                                  *)

\* what was generated for the file: which files and with what in them, the
\* name of the schema file left out
EmittedFor(k) == {[suffix |-> e.suffix, text |-> e.text] : e \in rEmitted[k]}

\* C19: two schema files of a run with the same messages and services have
\* the same files generated for them, with the same content, wherever they
\* stand in the run.
C19_EmittedDependsOnFileOnly ==
    \A j, k \in 1..Len(rEmitted) :
        (rFiles[j].messages = rFiles[k].messages /\ rFiles[j].services = rFiles[k].services)
            => EmittedFor(j) = EmittedFor(k)

\* the names of the messages of the file that carry the entity option
MarkedMessages(f) ==
    {f.messages[k].GoName : k \in {h \in 1..Len(f.messages) : f.messages[h].opts = EntityOpts}}

\* C20: once the entity map of a file is built it holds the marked messages
\* of that file and no other; no step after that changes it before the
\* next file; and the entity a method is bound to is one of this file.
C20_RegistryFileScoped ==
    /\ [](gPlugin \in {"service-stubs", "connect-server"} /\ gPc \in {"services", "generate"} =>
            /\ DOMAIN gEntities = MarkedMessages(gFile)
            /\ \A c \in RegistryClassified :
                  c.class.op # "" => c.class.entity \in MarkedMessages(gFile))
    /\ [][gPc # "start" => gEntities' = gEntities]_vars

\* the second file of a run is analysed; it declares DeleteOrder and Order
\* is no entity of it, the first file had Order as an entity, and
\* DeleteOrder was left without an operation
C20_Witness ==
    /\ gPlugin \in {"service-stubs", "connect-server"}
    /\ rAt = 2
    /\ gPc = "generate"
    /\ nOrder \in MarkedMessages(rFiles[1])
    /\ nOrder \notin MarkedMessages(gFile)
    /\ \E c \in RegistryClassified :
          c.decl.name = <<"D", "e", "l", "e", "t", "e", "O", "r", "d", "e", "r">> /\ c.class.op = ""
    /\ \E c \in RegistryClassified : c.class.op # ""

-----------------------------------------------------------------------------
(* Claims C21 to C30.                                                      *)

\* the value of the varint at the head of bs as an int32, from its 7-bit
\* groups: bits 0..20 in the first three, bits 21..31 in the next two
WireInt32(bs) ==
    LET g(k) == IF k <= WireVarintSize(bs) THEN bs[k] % 128 ELSE 0
        low  == g(1) + 128 * g(2) + 16384 * g(3)
        hi   == g(4) + 128 * (g(5) % 16)
    IN  IF hi >= 1024
        THEN (((hi % 1024) * 2097152 + low) - 1073741824) - 1073741824
        ELSE hi * 2097152 + low

\* the varints of a byte run, in order, as far as whole varints go
RECURSIVE WireVarints(_)
WireVarints(bs) ==
    IF bs = <<>> \/ WireVarintSize(bs) = 0 THEN <<>>
    ELSE <<WireInt32(bs)>> \o WireVarints(Drop(bs, WireVarintSize(bs)))

\* the field-1 values of a well-formed bs in the order they occur: one for
\* a varint occurrence, each varint of the run for a packed occurrence
RECURSIVE WireEffects(_)
WireEffects(bs) ==
    IF bs = <<>> THEN <<>>
    ELSE LET f    == WireField(bs)
             here == CASE f.num = 1 /\ f.wt = 0 ->
                            <<WireInt32(Drop(bs, WireVarintSize(bs)))>>
                       [] f.num = 1 /\ f.wt = 2 -> WireVarints(f.payload)
                       [] OTHER -> <<>>
         IN  here \o WireEffects(Drop(bs, f.size))

\* the payload of the last top-level length-delimited field num
RECURSIVE WireLastBytes(_, _)
WireLastBytes(bs, num) ==
    IF bs = <<>> THEN NilBytes
    ELSE LET f     == WireField(bs)
             later == WireLastBytes(Drop(bs, f.size), num)
         IN  IF ~later.nil THEN later
             ELSE IF f.num = num /\ f.wt = 2 THEN SomeBytes(f.payload)
             ELSE NilBytes

\* C21: for well-formed file-option bytes parseCategoryFileOptions returns
\* as Effects all field-1 values in wire order, a varint occurrence giving
\* one value and a packed occurrence each varint of its run, and as Stripe
\* what parseStripeConfig makes of the field-10 sub-blob.
C21_EffectsInWireOrder ==
    (/\ oFn = "parseCategoryFileOptions"
     /\ oSt = "done"
     /\ ~oIn.nil
     /\ WireWellFormed(oIn.val))
    => /\ oOpts.Effects = WireEffects(oIn.val)
       /\ oOpts.Stripe = IF WireLastBytes(oIn.val, 10).nil THEN NoStripe
                         ELSE parseStripeConfig(WireLastBytes(oIn.val, 10).val)

\* C22: a call of Load of the emitted repository always completes, and when
\* it has returned the stored data is a copy of the snapshot given.
C22_LoadCompletes ==
    /\ \A p \in Goroutines : (mPc[p] = "Load.Clear") ~> (mPc[p] = "idle")
    /\ [](mRet.op = "Load" => mData = mRet.snapshot)

\* C23: Upsert creates or updates: for every non-nil entity with an Id it
\* returns no error and leaves the entity stored under that Id, whether the
\* Id was absent, present or soft-deleted, and under concurrent Upserts.
\* (An Upsert refused for the unique field is left aside.)
C23_UpsertCreatesOrUpdates ==
    (/\ mRet.op = "Upsert"
     /\ ~mRet.entity.nil
     /\ mRet.entity.Id # ""
     /\ mRet.err # "email already exists: ErrAlreadyExists")
    => /\ mRet.err = "nil"
       /\ mRet.entity.Id \in DOMAIN mData
       /\ mData[mRet.entity.Id] = mRet.entity

\* no reading method returns or counts the stored entity id, Update refuses
\* it, and ListAll returns it
Hidden(data, idx, id) ==
    /\ IsNotFound(Get(data, idx, id).err)
    /\ GetOrNil(data, idx, id).err = "nil" /\ GetOrNil(data, idx, id).val.nil
    /\ ~Exists(data, idx, id).val
    /\ \A e \in List(data, idx).val : e.Id # id
    /\ Count(data, idx).val = Count(MapDelete(data, id), idx).val
    /\ \A v \in Emails : FindByEmail(data, idx, v).val.Id # id
    /\ \A p \in Predicates : \A e \in FilterEntities(data, idx, p).val : e.Id # id
    /\ \A e \in EntityPool : e.Id = id => IsNotFound(Update(data, idx, e).err)
    /\ \E e \in ListAll(data, idx).val : e.Id = id

\* Get, GetOrNil, Exists, List, Count and Filter return or count the entity id
Visible(data, idx, id) ==
    /\ Get(data, idx, id).err = "nil" /\ Get(data, idx, id).val.Id = id
    /\ GetOrNil(data, idx, id).val.Id = id
    /\ Exists(data, idx, id).val
    /\ \E e \in List(data, idx).val : e.Id = id
    /\ Count(data, idx).val = Count(MapDelete(data, id), idx).val + 1
    /\ \E e \in FilterEntities(data, idx, "any").val : e.Id = id
    /\ \E e \in FilterEntities(data, idx, data[id].Email).val : e.Id = id

\* FindByEmail returns the entity id for its email, when it has one
FoundByEmail(data, idx, id) ==
    data[id].Email # "" => FindByEmail(data, idx, data[id].Email).val.Id = id

\* a step in which Restore(id) succeeds
Restores(id) == CallRestore /\ mRet'.op = "Restore" /\ mRet'.key = id /\ mRet'.err = "nil"

\* C24: while the entity id is soft-deleted, from a successful SoftDelete(id)
\* until a successful Restore(id), the reading methods do not return or count
\* it, Update(id) returns ErrNotFound and ListAll returns it; after
\* Restore(id) Get, GetOrNil, Exists, List, Count, Filter and FindByEmail
\* all see it again.
C24_HiddenUntilRestore ==
    /\ [](\A id \in RepoIds : mSoft[id] => Hidden(mData, mIdxEmail, id))
    /\ [][\A id \in RepoIds : mSoft[id] /\ Restores(id)
             => Visible(mData', mIdxEmail', id) /\ FoundByEmail(mData', mIdxEmail', id)]_vars

\* C25: a Create that returns an error (nil entity, an Id already stored, a
\* unique email already indexed) leaves the stored data and the unique index
\* as they were; a Create that succeeds stores the entity under the Id it
\* returns, which is the given Id when one was given.
C25_CreateAllOrNothing ==
    [][CallCreate =>
         IF mRet'.err # "nil"
         THEN mData' = mData /\ mIdxEmail' = mIdxEmail
         ELSE /\ mRet'.id \in DOMAIN mData'
              /\ mData'[mRet'.id] = [mRet'.entity EXCEPT !.Id = mRet'.id]
              /\ (mRet'.entity.Id # "" => mRet'.id = mRet'.entity.Id)]_vars

\* Create has refused an entity with a new Id for its email, held by another
C25_Witness ==
    /\ mRet.op = "Create"
    /\ mRet.err = "email already exists: ErrAlreadyExists"
    /\ mRet.entity.Id # ""
    /\ mRet.entity.Id \notin DOMAIN mData
    /\ mRet.entity.Email \in DOMAIN mIdxEmail

\* the index maps email v to id exactly when the stored entity id has v
IndexAgrees(data, idx) ==
    \A v \in Emails, id \in RepoIds :
       (v \in DOMAIN idx /\ idx[v] = id) <=> (id \in DOMAIN data /\ data[id].Email = v)

\* C26: after any sequence of Create, Update, Upsert, Delete, SoftDelete,
\* Restore and Clear the unique index agrees with the data: it maps a value
\* to id exactly when the stored entity id has that non-zero value, so no two
\* stored entities share one and FindByEmail(v) returns the entity holding v.
C26_IndexAgreesWithData ==
    /\ IndexAgrees(mData, mIdxEmail)
    /\ \A i, j \in DOMAIN mData :
          mData[i].Email # "" /\ mData[i].Email = mData[j].Email => i = j
    /\ \A id \in DOMAIN mData :
          mData[id].Email # "" /\ ~mData[id].DeletedAt
          => FindByEmail(mData, mIdxEmail, mData[id].Email).val = mData[id]

\* C27: every wire-format walk terminates: a pass of the loop strictly
\* advances the read position or leaves the loop, so no input, a length
\* whose signed conversion is negative included, sends a walk back to an
\* earlier position or round forever.
C27_WalkAdvances ==
    (tSt = "loop" /\ ~IsNeg(tI) /\ SignedLess(tI, Len(tB)))
    => LET r == tagIter(tFn, tB, tNum, tI)
       IN  r.st = "loop" => ~SignedLess(r.i, Small(tI) + 1)

\* the field numbers of the flags of CategoryMessageOptions
FlagNames ==
    [n \in {1, 2, 3, 4, 5, 6, 7, 10, 11, 20, 21} |->
       CASE n = 1  -> "Functor"
         [] n = 2  -> "Monoid"
         [] n = 3  -> "Semigroup"
         [] n = 4  -> "Foldable"
         [] n = 5  -> "Traversable"
         [] n = 6  -> "Monad"
         [] n = 7  -> "Bifunctor"
         [] n = 10 -> "FirestoreBridge"
         [] n = 11 -> "Global"
         [] n = 20 -> "StripeCustomer"
         [] n = 21 -> "StripeSubscription"]

\* in a well-formed bs, field num occurs as a varint and the last such
\* occurrence is not zero
RECURSIVE WireLastVarintNonZero(_, _)
WireLastVarintNonZero(bs, num) ==
    /\ bs # <<>>
    /\ LET f    == WireField(bs)
           rest == Drop(bs, f.size)
       IN  IF WireHasField(rest, num, 0)
           THEN WireLastVarintNonZero(rest, num)
           ELSE /\ f.num = num
                /\ f.wt = 0
                /\ WireGroups(Drop(bs, WireVarintSize(bs))) # <<>>

\* C28: for well-formed option bytes parseCategoryMessageOptions sets each
\* flag to true exactly when the last varint occurrence of its field number
\* is non-zero, and leaves it false when the number does not occur; fields
\* of other wire types and unknown numbers are skipped whole, changing none.
C28_FlagsFollowLastVarint ==
    (/\ oFn = "parseCategoryMessageOptions"
     /\ oSt = "done"
     /\ ~oIn.nil
     /\ WireWellFormed(oIn.val))
    => \A n \in DOMAIN FlagNames :
          oOpts[FlagNames[n]] = WireLastVarintNonZero(oIn.val, n)

\* well-formed bytes were read that hold a field which is not a varint, and
\* a flag is set from a varint field
C28_Witness ==
    /\ oFn = "parseCategoryMessageOptions"
    /\ oSt = "done"
    /\ ~oIn.nil
    /\ WireWellFormed(oIn.val)
    /\ \E wt \in {1, 2, 5}, n \in {1, 2} : WireHasField(oIn.val, n, wt)
    /\ \E n \in {1, 2} : oOpts[FlagNames[n]] /\ WireHasField(oIn.val, n, 0)

\* the rendering is empty or ends in a newline
NewlineTerminated(text) == text = <<>> \/ text[Len(text)] = "\n"

\* a text with two tabs before every line that is not empty, read off the
\* text character by character
RECURSIVE TwiceTabbedFrom(_, _)
TwiceTabbedFrom(text, atLineStart) ==
    IF text = <<>> THEN <<>>
    ELSE IF Head(text) = "\n" THEN <<"\n">> \o TwiceTabbedFrom(Tail(text), TRUE)
    ELSE (IF atLineStart THEN <<"\t", "\t">> ELSE <<>>) \o <<Head(text)>>
             \o TwiceTabbedFrom(Tail(text), FALSE)

\* C29: for fragments a and b that render the empty string or a string that
\* ends in a newline, Indent(Append(a, b)) renders as
\* Append(Indent(a), Indent(b)); Indent(Empty) renders the empty string; and
\* Indent(Indent(a)) renders a with two tabs before every line that is not
\* empty.
C29_IndentDistributes ==
    /\ \A i, j \in 1..Len(fFrags) :
          (NewlineTerminated(Run(fFrags[i]).text) /\ NewlineTerminated(Run(fFrags[j]).text))
          => Run(IndentThunk(AppendThunk(fFrags[i], fFrags[j]))).text
                = Run(AppendThunk(IndentThunk(fFrags[i]), IndentThunk(fFrags[j]))).text
    /\ Run(IndentThunk(EmptyThunk)).text = <<>>
    /\ \A i \in 1..Len(fFrags) :
          Run(IndentThunk(IndentThunk(fFrags[i]))).text
             = TwiceTabbedFrom(Run(fFrags[i]).text, TRUE)

\* the Indent of an Append of two fragments that end in a newline, the
\* second with the Indent of several lines in it, was rendered, and gave
\* lines with two tabs
C29_Witness ==
    \E k \in 1..Len(fFrags) :
        /\ fFam = "inmemory"
        /\ fHow[k].op = "indent"
        /\ fFrags[k][2][1] = "Append"
        /\ Run(fFrags[k][2][2]).text # <<>>
        /\ NewlineTerminated(Run(fFrags[k][2][2]).text)
        /\ fFrags[k][2][3][1] = "Append"
        /\ fFrags[k][2][3][2][1] = "Indent"
        /\ NewlinesOf(Run(fFrags[k][2][3]).text) > 2
        /\ fRuns[k].n > 0
        /\ \E h \in 1..(Len(fRuns[k].first) - 2) :
              /\ fRuns[k].first[h] = "\t"
              /\ fRuns[k].first[h + 1] = "\t"
              /\ fRuns[k].first[h + 2] = "a"

\* the codes handed to concat and Concat, in the order of the slice
ConcatArgs == [k \in 1..Len(hXs) |-> hCode[hXs[k]]]

\* C30: concat(codes...), which folds from the left, and
\* Concat(CodeMonoid, codes), which folds from the right, render the same
\* string for the same codes: the renderings of the codes one after the
\* other.
C30_FoldsAgree ==
    /\ Run(concatThunk(ConcatArgs)).text = Run(ConcatThunk(ConcatArgs)).text
    /\ (hRes["concat"].set /\ hRes["Concat"].set)
          => /\ Run(hRes["concat"].val).text = Run(hRes["Concat"].val).text
             /\ Run(hRes["concat"].val).text
                   = Flatten([k \in 1..Len(hXs) |-> Run(ConcatArgs[k]).text])

\* both were applied to three codes, the second unlike the other two, that
\* render some text each; the one nests to the left and the other to the
\* right
C30_Witness ==
    /\ hRes["concat"].set /\ hRes["Concat"].set
    /\ hXs = <<"x", "y", "x">>
    /\ Run(hCode["x"]).text # <<>> /\ Run(hCode["y"]).text # <<>>
    /\ Run(hCode["x"]).text # Run(hCode["y"]).text
    /\ hRes["concat"].val[1] = "append2" /\ hRes["concat"].val[2][1] = "append2"
    /\ hRes["Concat"].val[1] = "Append" /\ hRes["Concat"].val[3][1] = "Append"
    /\ hRes["concat"].val # hRes["Concat"].val

=============================================================================
